---- MODULE Spec2Model ----
(***************************************************************************)
(* Detection core of the malfeasant honeypot: HoneypotService             *)
(* (analyzeRequest / processRequest), RateLimitService (in-memory sliding  *)
(* window), UserAgentService (allow / deny lists) and the request log.     *)
(*                                                                         *)
(* Strings that the code inspects character by character (user agents,     *)
(* request paths, setting values) are sequences of one-character strings.  *)
(* Date.now() is clock * SECONDS: the clock advances in whole seconds.      *)
(* A request handler is split at its awaits; each action is the            *)
(* synchronous block that runs when the awaited promise resolves.           *)
(***************************************************************************)
EXTENDS Integers, Sequences, FiniteSets, TLC

VARIABLES clock, settings, config, knownBadAgents, knownGoodAgents,
          userRequests, requestLogs, calls, started, returned,
          storeOk, agentRows, task, isInitialized, snapshot,
          seededRandom, evaluations, instances, streams, markov, scan

vars == <<clock, settings, config, knownBadAgents, knownGoodAgents,
          userRequests, requestLogs, calls, started, returned,
          storeOk, agentRows, task, isInitialized, snapshot,
          seededRandom, evaluations, instances, streams, markov, scan>>

\* the store answers or fails, the rows of the agent tables, the call of
\* initialize or refreshCache in progress, ServiceContainer.isInitialized, and
\* the agent sets as they were when the last refresh was entered
lifecycle == <<storeOk, agentRows, task, isInitialized, snapshot>>

\* a SeededRandom object (its digest and index), the last calls of the
\* functions applied on their own, the latest first, the SeededRandom objects
\* that are drawn from side by side with the values each has returned, and
\* the index of the MarkovChain, and the buildIndex call in progress
functions == <<seededRandom, evaluations, instances, streams, markov, scan>>

\* the variables of the detection services
services == <<clock, settings, config, knownBadAgents, knownGoodAgents, userRequests,
              requestLogs, calls, started, returned, lifecycle>>

(* ------------------------------ bounds -------------------------------- *)

\* Spec: the clock stops at MaxClock, MaxRequests requests are sent
MaxClock == 2
MaxRequests == 3
\* SpecClassify: MaxClassified requests are sent to a process whose request
\* log held MaxPersisted rows of every visitor when it started
MaxClassified == 1
MaxPersisted == 2
\* SpecLifecycle: MaxServed requests are sent to a process that starts on a
\* store holding up to MaxPersisted request log rows
MaxServed == 1
\* SpecBlock: the clock stops at MaxElapsed, MaxSent requests are sent
MaxElapsed == 4
MaxSent == 5
\* SpecRestart: MaxLogged requests are sent to a process that is stopped and
\* started again on the store it wrote to
MaxLogged == 3
\* SpecMalformed: MaxMalformed requests are sent, with or without a path
MaxMalformed == 2
\* SpecStreams: every SeededRandom object is drawn from MaxDraws times
MaxDraws == 3
\* SpecMarkov: generateWords is asked for up to MaxWords words
MaxWords == 3
\* SpecFunctions: the digest of a seed is DigestLength bytes long (32 in
\* SHA-256)
DigestLength == 2

(* ------------------------- program constants --------------------------- *)

SECONDS == 1000
honeypotSecret == << "d", "e", "f", "a", "u", "l", "t", "-", "h", "o", "n", "e",
                    "y", "p", "o", "t", "-", "s", "e", "c", "r", "e", "t" >>
null == <<>>
\* the value of a missing argument or property, the result of indexing an
\* array out of range and of pick on an empty array
undefined == <<"undefined">>

(* ------------------------------ strings -------------------------------- *)

LowerChar(c) ==
  CASE c = "G" -> "g"
    [] c = "B" -> "b"
    [] c = "A" -> "a"
    [] c = "X" -> "x"
    [] OTHER -> c

toLowerCase(s) == [i \in 1..Len(s) |-> LowerChar(s[i])]

startsWith(s, p) == Len(p) <= Len(s) /\ SubSeq(s, 1, Len(p)) = p

endsWith(s, p) == Len(p) <= Len(s) /\ SubSeq(s, Len(s) - Len(p) + 1, Len(s)) = p

includes(s, p) == \E i \in 0..(Len(s) - Len(p)) : SubSeq(s, i + 1, i + Len(p)) = p

DigitValue(d) ==
  CASE d = "0" -> 0 [] d = "1" -> 1 [] d = "2" -> 2 [] d = "3" -> 3
    [] d = "4" -> 4 [] d = "5" -> 5 [] d = "6" -> 6 [] d = "7" -> 7
    [] d = "8" -> 8 [] d = "9" -> 9

RECURSIVE parseInt(_)
parseInt(s) ==
  IF Len(s) = 0 THEN 0
  ELSE 10 * parseInt(SubSeq(s, 1, Len(s) - 1)) + DigitValue(s[Len(s)])

(* ------------------------- inputs of the model ------------------------- *)

Procs == {1, 2}

\* rows of known_bad_agents / known_good_agents: deny pattern "B" ("bot"),
\* allow pattern "Gb" ("Googlebot")
BadAgentRows == {<<"B">>}
GoodAgentRows == {<<"G", "b">>}

UserAgents == { <<"G", "B">>,        \* equals the allow entry, contains the deny pattern
                <<"g", "b", "x">>,   \* contains the allow entry as a proper substring
                <<"x", "B">>,        \* contains the deny pattern only
                <<"x">> }            \* on neither list

LocalAddress == <<"1", "0", ".", "0", ".", "0", ".", "1">>

IpAddresses == {LocalAddress}

Paths == { <<"/">>,
           <<"/", "a", ".", "h", "t", "m", "l">>,
           <<"/", "a", ".", "h", "t", "m">>,
           <<"/", "a", ".", "b", "/">>,
           <<"/", "a">>,
           <<"/", "s", ".", "c", "s", "s">>,
           <<"/", "a", "p", "i", "/", "x">>,
           <<"/", "a", "p", "i">>,
           <<"/", "d", "a", "s", "h", "b", "o", "a", "r", "d">>,
           <<"/", "d", "a", "s", "h", "b", "o", "a", "r", "d", ".", "h", "t", "m", "l">>,
           <<"/", "d", "a", "s", "h", "b", "o", "a", "r", "d", "/", "x">>,
           <<"/", "d", "a", "s", "h", "b", "o", "a", "r", "d", "x">> }

NoParams == [k \in {} |-> ""]
QueryParams == { NoParams, [k \in {"scramble"} |-> ""], [k \in {"scramble"} |-> "1"],
                 [k \in {"page"} |-> "1"] }

Requests == [userAgent : UserAgents, ipAddress : IpAddresses,
             path : Paths, queryParams : QueryParams]

\* the traffic of Spec: page requests of two visitors; no agent row is active
Traffic == [userAgent : {<<"x">>, <<"g", "b", "x">>}, ipAddress : IpAddresses,
            path : {<<"/">>}, queryParams : {NoParams}]

\* <<rate_limit_short_window, rate_limit_short_max, config.security.rateLimitShortWindow>>
Configurations == { <<<<"1">>, <<"1">>, 1>>, <<<<"2">>, <<"1">>, 1>>, <<<<"1">>, <<"2">>, 2>> }

(* ------------------------------ helpers -------------------------------- *)

Now == clock * SECONDS

MapGet(m, k) == IF k \in DOMAIN m THEN m[k] ELSE <<>>

MapSet(m, k, v) == [x \in (DOMAIN m) \cup {k} |-> IF x = k THEN v ELSE m[x]]

\* faulty variant: a timestamp exactly one window old is kept
RecentInclusive(timestamps, cutoff) == SelectSeq(timestamps, LAMBDA ts : ts >= cutoff)

\* faulty variant: the timestamps are not filtered
RecentUnfiltered(timestamps, cutoff) == timestamps

\* timestamps.filter(ts => ts > cutoff)
Recent(timestamps, cutoff) == SelectSeq(timestamps, LAMBDA ts : ts > cutoff)

(* --------------------------- DetectionResult --------------------------- *)

DetectionResult(shouldScramble, redirectReason, userId) ==
  [shouldScramble |-> shouldScramble, redirectReason |-> redirectReason,
   userId |-> userId]

allowed(userId) == DetectionResult(FALSE, null, userId)

blocked(userId, reason) == DetectionResult(TRUE, reason, userId)

scrambleParameter(userId) == blocked(userId, <<"Scramble parameter detected">>)

knownBadAgent(userId) == blocked(userId, <<"Known bad user agent">>)

\* faulty variant: the limit is written where the count belongs
rateLimitExceededSwapped(userId, requestCount, limit) ==
  blocked(userId, <<"Rate limit exceeded", limit, requestCount>>)

rateLimitExceeded(userId, requestCount, limit) ==
  blocked(userId, <<"Rate limit exceeded", requestCount, limit>>)

(* --------------------------- UserAgentService -------------------------- *)

isKnownBadAgent(userAgent) ==
  /\ userAgent # <<>>
  /\ \E badAgent \in knownBadAgents : includes(toLowerCase(userAgent), badAgent)

\* faulty variant: the user agent is not lowercased before the comparison
isKnownGoodAgentCaseSensitive(userAgent) ==
  /\ userAgent # <<>>
  /\ \E goodAgent \in knownGoodAgents : includes(userAgent, goodAgent)

isKnownGoodAgent(userAgent) ==
  /\ userAgent # <<>>
  /\ \E goodAgent \in knownGoodAgents : includes(toLowerCase(userAgent), goodAgent)

(* --------------------------- RateLimitService -------------------------- *)

\* faulty variant: the sub-paths of /dashboard/ are not excluded
isExcludedFromRateLimitNoSubPaths(path) ==
  \/ startsWith(path, <<"/", "a", "p", "i", "/">>)
  \/ path = <<"/", "d", "a", "s", "h", "b", "o", "a", "r", "d", ".", "h", "t", "m", "l">>
  \/ path = <<"/", "d", "a", "s", "h", "b", "o", "a", "r", "d">>

isExcludedFromRateLimit(path) ==
  \/ startsWith(path, <<"/", "a", "p", "i", "/">>)
  \/ path = <<"/", "d", "a", "s", "h", "b", "o", "a", "r", "d", ".", "h", "t", "m", "l">>
  \/ path = <<"/", "d", "a", "s", "h", "b", "o", "a", "r", "d">>
  \/ startsWith(path, <<"/", "d", "a", "s", "h", "b", "o", "a", "r", "d", "/">>)

isHtmlRequest(path) ==
  \/ path = <<"/">>
  \/ endsWith(path, <<".", "h", "t", "m", "l">>)
  \/ endsWith(path, <<".", "h", "t", "m">>)
  \/ endsWith(path, <<"/">>)
  \/ ~ includes(path, <<".">>)

\* faulty variant: a failed read does not fall back to the default
getSettingNoDefault(key, defaultValue) == settings[key]

\* SettingsService.getSetting: the value of the row, the default when the
\* query fails
getSetting(key, defaultValue) == IF storeOk THEN settings[key] ELSE defaultValue

getRateLimitWindow ==
  parseInt(getSetting("rate_limit_short_window", <<"6", "0">>)) * 1000

getRateLimitMax == parseInt(getSetting("rate_limit_short_max", <<"1", "0">>))

\* faulty variant: the toggle is not read, as in the detector that preceded
\* the setting
getHoneypotStatusIgnored == TRUE

getHoneypotStatus == getSetting("honeypot_enabled", "true") = "true"

(* --------------------------- HoneypotService --------------------------- *)

\* faulty variant: the truthiness test `if (queryParams.scramble)` misses
\* "?scramble" and "?scramble=", whose value is the empty string
hasScrambleTruthy(queryParams) ==
  "scramble" \in DOMAIN queryParams /\ queryParams["scramble"] # ""

\* queryParams.scramble !== undefined
hasScramble(queryParams) == "scramble" \in DOMAIN queryParams

\* isHtmlRequest(path) throws a TypeError: path is not '/' and has no endsWith
isHtmlRequestThrows(path) == path = undefined

\* faulty variant: the request is blocked when the analysis throws
onErrorBlocked(userId) == blocked(userId, <<"Error analyzing request">>)

\* the catch of analyzeRequest: the error is written to the console and the
\* request is allowed
onError(userId) == allowed(userId)

(* ------------------- src/unnamed/part_001: RobotDetector ---------------- *)

\* RobotDetector.isKnownGoodAgent: this.knownGoodAgents.has(userAgent.toLowerCase())
RobotDetector_isKnownGoodAgent(userAgent) == toLowerCase(userAgent) \in knownGoodAgents

\* RobotDetector.isKnownBadAgent: a pattern of the list is contained in the
\* lowercased user agent
RobotDetector_isKnownBadAgent(userAgent) ==
  \E badAgent \in knownBadAgents : includes(toLowerCase(userAgent), badAgent)

\* RobotDetector.getContent up to its first await: the decision, or the rate
\* limit check that decides
RobotDetector_getContent(request) ==
  IF hasScramble(request.queryParams) THEN "Scramble parameter detected"
  ELSE IF isHtmlRequest(request.path) /\ ~ isExcludedFromRateLimit(request.path)
    THEN IF RobotDetector_isKnownGoodAgent(request.userAgent) THEN "allowed"
         ELSE IF RobotDetector_isKnownBadAgent(request.userAgent)
           THEN "Known bad user agent"
         ELSE "checkRateLimits"
  ELSE "allowed"

\* the first 16 hex characters of the SHA-256 digest, taken as free of
\* collisions: the digest stands for the data that were hashed
sha256(data) == <<"sha256", data>>

generateUserId(userAgent, ipAddress) == sha256(userAgent \o ipAddress \o honeypotSecret)

NoRequest == [userAgent |-> <<>>, ipAddress |-> <<>>, path |-> <<>>,
              queryParams |-> NoParams]

NoRateLimitResult == [exceeded |-> FALSE, shortCount |-> 0, shortLimit |-> 0]

IdleCall == [pc |-> "idle", request |-> NoRequest, userId |-> <<>>,
             honeypotEnabled |-> FALSE, now |-> 0, rateLimitWindow |-> 0,
             userTimestamps |-> <<>>, rateLimitResult |-> NoRateLimitResult,
             detectionResult |-> allowed(<<>>)]

TypeOK ==
  /\ clock \in 0..(MaxClock + MaxElapsed)
  /\ started \in 0..(MaxRequests + MaxClassified + MaxServed + MaxSent + MaxLogged + MaxMalformed)
  /\ storeOk \in BOOLEAN
  /\ isInitialized \in BOOLEAN
  /\ task.pc \in {"idle", "badAgents", "goodAgents", "getRateLimitWindow", "warmup"}
  /\ returned.status \in {"pending", "fulfilled", "rejected"}
  /\ seededRandom.index \in 0..DigestLength
  /\ Len(evaluations) <= 2
  /\ \A p \in Procs : calls[p].pc \in {"idle", "ensureInitialized", "getHoneypotStatus",
        "getRateLimitWindow", "getRateLimitMax", "checkRateLimits", "logRequest",
        "badAgents1", "goodAgents1", "getRateLimitWindow1", "warmup1",
        "badAgents2", "goodAgents2", "getRateLimitWindow2", "warmup2"}

\* processRequest is entered: analyzeRequest computes the user id and awaits
\* the honeypot status
ProcessRequest(p, request) ==
  /\ calls[p].pc = "idle"
  /\ started' = started + 1
  /\ calls' = [calls EXCEPT ![p] =
        [IdleCall EXCEPT !.pc = "getHoneypotStatus", !.request = request,
           !.userId = generateUserId(request.userAgent, request.ipAddress)]]
  /\ UNCHANGED <<clock, settings, config, knownBadAgents, knownGoodAgents,
                 userRequests, requestLogs, returned, lifecycle, functions>>

\* analyzeRequest from the resolution of getHoneypotStatus up to its return
\* or up to the first await of checkRateLimits
analyzeRequest(p) ==
  LET c == calls[p]
      r == c.request
      decided(result) == [c EXCEPT !.pc = "logRequest",
                                   !.honeypotEnabled = getHoneypotStatus,
                                   !.detectionResult = result]
  IN
  /\ c.pc = "getHoneypotStatus"
  /\ calls' = [calls EXCEPT ![p] =
       IF ~ getHoneypotStatus THEN decided(allowed(c.userId))
       ELSE IF hasScramble(r.queryParams)
         THEN decided(scrambleParameter(c.userId))
       ELSE IF isHtmlRequestThrows(r.path) THEN decided(onError(c.userId))
       ELSE IF ~ isHtmlRequest(r.path) \/ isExcludedFromRateLimit(r.path)
         THEN decided(allowed(c.userId))
       ELSE IF isKnownGoodAgent(r.userAgent) THEN decided(allowed(c.userId))
       ELSE IF isKnownBadAgent(r.userAgent) THEN decided(knownBadAgent(c.userId))
       ELSE [c EXCEPT !.pc = "getRateLimitWindow", !.honeypotEnabled = TRUE,
                      !.now = Now]]
  /\ UNCHANGED <<clock, settings, config, knownBadAgents, knownGoodAgents,
                 userRequests, requestLogs, started, returned, lifecycle, functions>>

\* checkRateLimits after getRateLimitWindow resolved: awaits getRateLimitMax
checkRateLimitsWindow(p) ==
  /\ calls[p].pc = "getRateLimitWindow"
  /\ calls' = [calls EXCEPT ![p] =
        [@ EXCEPT !.pc = "getRateLimitMax", !.rateLimitWindow = getRateLimitWindow]]
  /\ UNCHANGED <<clock, settings, config, knownBadAgents, knownGoodAgents,
                 userRequests, requestLogs, started, returned, lifecycle, functions>>

\* checkRateLimits after getRateLimitMax resolved: filter, store, count
checkRateLimits(p) ==
  LET c == calls[p]
      rateLimitMax == getRateLimitMax
      windowAgo == c.now - c.rateLimitWindow
      userTimestamps == MapGet(userRequests, c.userId)
      recentTimestamps == Recent(userTimestamps, windowAgo)
      shortCount == Len(recentTimestamps)
  IN
  /\ c.pc = "getRateLimitMax"
  /\ userRequests' = MapSet(userRequests, c.userId, recentTimestamps)
  /\ calls' = [calls EXCEPT ![p] =
        [c EXCEPT !.pc = "checkRateLimits",
                  !.userTimestamps = userTimestamps,
                  !.rateLimitResult = [exceeded |-> shortCount > rateLimitMax,
                                       shortCount |-> shortCount,
                                       shortLimit |-> rateLimitMax]]]
  /\ UNCHANGED <<clock, settings, config, knownBadAgents, knownGoodAgents,
                 requestLogs, started, returned, lifecycle, functions>>

\* faulty variant: the timestamp is pushed twice
addRequestToCounterTwice(m, userId) ==
  MapSet(m, userId, Append(Append(MapGet(m, userId), Now), Now))

addRequestToCounter(m, userId) == MapSet(m, userId, Append(MapGet(m, userId), Now))

\* analyzeRequest after checkRateLimits resolved: block, or count and allow
analyzeRateLimit(p) ==
  LET c == calls[p] IN
  /\ c.pc = "checkRateLimits"
  /\ IF c.rateLimitResult.exceeded
       THEN /\ calls' = [calls EXCEPT ![p] =
                 [c EXCEPT !.pc = "logRequest",
                           !.detectionResult =
                              rateLimitExceeded(c.userId, c.rateLimitResult.shortCount,
                                                c.rateLimitResult.shortLimit)]]
            /\ UNCHANGED userRequests
       ELSE /\ userRequests' = addRequestToCounter(userRequests, c.userId)
            /\ calls' = [calls EXCEPT ![p] =
                 [c EXCEPT !.pc = "logRequest",
                           !.detectionResult = allowed(c.userId)]]
  /\ UNCHANGED <<clock, settings, config, knownBadAgents, knownGoodAgents,
                 requestLogs, started, returned, lifecycle, functions>>

\* faulty variant: the row is written without the reason, as before the
\* block_reason column was added
fromDetectionResultNoReason(request, detectionResult) ==
  [user_id |-> detectionResult.userId,
   user_agent |-> request.userAgent,
   ip_address |-> request.ipAddress,
   request_url |-> request.path,
   was_request_redirected |-> IF detectionResult.shouldScramble THEN 1 ELSE 0,
   block_reason |-> null,
   created_at |-> Now]

fromDetectionResult(request, detectionResult) ==
  [user_id |-> detectionResult.userId,
   user_agent |-> request.userAgent,
   ip_address |-> request.ipAddress,
   request_url |-> request.path,
   was_request_redirected |-> IF detectionResult.shouldScramble THEN 1 ELSE 0,
   block_reason |-> detectionResult.redirectReason,
   created_at |-> Now]

\* a promise that is not settled, fulfilled with a value, rejected with an error
NotSettled == [status |-> "pending", value |-> allowed(<<>>)]

fulfilled(value) == [status |-> "fulfilled", value |-> value]

rejected(value) == [status |-> "rejected", value |-> value]

\* faulty variant: the error of the log insert is thrown again
settleRethrows(inserted, detectionResult) ==
  IF inserted THEN fulfilled(detectionResult) ELSE rejected(detectionResult)

\* the promise of processRequest: the catch swallows the error of the insert
\* and the decision is returned: shouldScramble, redirectReason, userId
settle(inserted, detectionResult) == fulfilled(detectionResult)

\* processRequest after analyzeRequest returned: the log insert succeeds or
\* fails (the failure is caught), then the result is returned to the caller
logRequest(p, inserted) ==
  LET c == calls[p] IN
  /\ c.pc = "logRequest"
  /\ requestLogs' = IF inserted
                      THEN Append(requestLogs,
                                  fromDetectionResult(c.request, c.detectionResult))
                      ELSE requestLogs
  /\ calls' = [calls EXCEPT ![p] = IdleCall]
  /\ returned' = settle(inserted, c.detectionResult)
  /\ UNCHANGED <<clock, settings, config, knownBadAgents, knownGoodAgents,
                 userRequests, started, lifecycle, functions>>

rateLimitShortWindow ==
  IF config.rateLimitShortWindow = 0 THEN 60 ELSE config.rateLimitShortWindow

\* the cleanup timer fires
cleanupRateCounters ==
  LET oneMinuteAgo == Now - rateLimitShortWindow * 1000
      filtered == [u \in DOMAIN userRequests |-> Recent(userRequests[u], oneMinuteAgo)]
  IN
  /\ userRequests' = [u \in {x \in DOMAIN filtered : Len(filtered[x]) # 0} |-> filtered[u]]
  /\ UNCHANGED <<clock, settings, config, knownBadAgents, knownGoodAgents,
                 requestLogs, calls, started, returned, lifecycle, functions>>

Tick ==
  /\ clock < MaxClock
  /\ clock' = clock + 1
  /\ UNCHANGED <<settings, config, knownBadAgents, knownGoodAgents,
                 userRequests, requestLogs, calls, started, returned, lifecycle, functions>>

(* ------------------------- state after initialize ----------------------- *)

\* refreshKnownAgents: the set loaded from the active rows of one agent table
refreshKnownAgents(rows) == {toLowerCase(row) : row \in rows}

\* the WHERE clause of the warm-up query on request_url
WarmupUrl(request_url) ==
  /\ \/ endsWith(request_url, <<".", "h", "t", "m", "l">>)
     \/ request_url = <<"/">>
     \/ ~ includes(request_url, <<".">>)
  /\ ~ startsWith(request_url, <<"/", "a", "p", "i", "/">>)
  /\ request_url # <<"/", "d", "a", "s", "h", "b", "o", "a", "r", "d", ".", "h", "t", "m", "l">>
  /\ request_url # <<"/", "d", "a", "s", "h", "b", "o", "a", "r", "d">>

\* the created_at of the rows of one user, in the order of the sequence
RECURSIVE TimestampsOf(_, _)
TimestampsOf(rows, userId) ==
  IF rows = <<>> THEN <<>>
  ELSE IF Head(rows).user_id = userId
         THEN <<Head(rows).created_at>> \o TimestampsOf(Tail(rows), userId)
         ELSE TimestampsOf(Tail(rows), userId)

\* ORDER BY created_at DESC
RECURSIVE OrderDesc(_)
OrderDesc(rows) ==
  IF rows = <<>> THEN <<>>
  ELSE LET i == CHOOSE i \in 1..Len(rows) :
                   \A j \in 1..Len(rows) : rows[j].created_at <= rows[i].created_at
       IN <<rows[i]>> \o OrderDesc(SubSeq(rows, 1, i - 1) \o SubSeq(rows, i + 1, Len(rows)))

\* warmupRateCounters: the map built from the rows of request_logs
warmupRateCounters(logs, rateLimitWindow) ==
  LET windowAgo == Now - rateLimitWindow
      rows == OrderDesc(SelectSeq(logs, LAMBDA row :
                  row.created_at > windowAgo /\ WarmupUrl(row.request_url)))
      users == {rows[i].user_id : i \in 1..Len(rows)}
  IN [userId \in users |-> TimestampsOf(rows, userId)]

\* no call of initialize or refreshCache is in progress
IdleTask == [pc |-> "idle", caller |-> "none", round |-> 0, rateLimitWindow |-> 0]

\* no SeededRandom was constructed
NoSeededRandom == [hash |-> <<>>, index |-> 0]

\* the MarkovChain after its constructor: buildIndex has not run
MarkovChain == [chains |-> <<>>, words |-> <<>>, totalTransitions |-> 0,
                isIndexed |-> FALSE]

\* no buildIndex call is in progress
NoScan == [pc |-> "idle", items |-> <<>>, directory |-> <<>>, previous |-> MarkovChain]

\* the detection services are constructed on an empty store and take no step
ServicesIdle ==
  /\ clock = 0
  /\ settings = [honeypot_enabled |-> "true", rate_limit_short_window |-> <<"1">>,
                 rate_limit_short_max |-> <<"1">>]
  /\ config = [rateLimitShortWindow |-> 1]
  /\ knownBadAgents = {}
  /\ knownGoodAgents = {}
  /\ requestLogs = <<>>
  /\ userRequests = <<>>
  /\ calls = [p \in Procs |-> IdleCall]
  /\ started = 0
  /\ returned = NotSettled
  /\ storeOk = TRUE
  /\ agentRows = [bad |-> {}, good |-> {}]
  /\ task = IdleTask
  /\ isInitialized = TRUE
  /\ snapshot = <<{}, {}>>

\* the state of a process that was constructed and initialized on a store
\* holding these settings, agent rows and request log rows
Initialized(honeypot_enabled, window, max, shortWindow, badRows, goodRows, logs) ==
  /\ clock = 0
  /\ settings = [honeypot_enabled |-> honeypot_enabled,
                 rate_limit_short_window |-> window,
                 rate_limit_short_max |-> max]
  /\ config = [rateLimitShortWindow |-> shortWindow]
  /\ knownBadAgents = refreshKnownAgents(badRows)
  /\ knownGoodAgents = refreshKnownAgents(goodRows)
  /\ requestLogs = logs
  /\ userRequests = warmupRateCounters(logs, parseInt(window) * 1000)
  /\ calls = [p \in Procs |-> IdleCall]
  /\ started = 0
  /\ returned = NotSettled
  /\ storeOk = TRUE
  /\ agentRows = [bad |-> badRows, good |-> goodRows]
  /\ task = IdleTask
  /\ isInitialized = TRUE
  /\ snapshot = <<refreshKnownAgents(badRows), refreshKnownAgents(goodRows)>>
  /\ seededRandom = NoSeededRandom
  /\ evaluations = <<>>
  /\ instances = <<>>
  /\ streams = <<>>
  /\ markov = MarkovChain
  /\ scan = NoScan

(* ---------------------- Spec: the limiter under traffic ----------------- *)

\* a fresh store: no agent rows, no request log rows
Init ==
  \E k \in Configurations :
     Initialized("true", k[1], k[2], k[3], {}, {}, <<>>)

Next ==
  \/ \E p \in Procs, request \in Traffic :
        started < MaxRequests /\ ProcessRequest(p, request)
  \/ \E p \in Procs : analyzeRequest(p)
  \/ \E p \in Procs : checkRateLimitsWindow(p)
  \/ \E p \in Procs : checkRateLimits(p)
  \/ \E p \in Procs : analyzeRateLimit(p)
  \/ \E p \in Procs : logRequest(p, TRUE)
  \/ cleanupRateCounters
  \/ Tick

Spec == Init /\ [][Next]_vars

(* ------------- SpecClassify: one request of every kind ------------------ *)

\* a page request of the visitor that was allowed and logged before the restart
PersistedRow(userAgent, ipAddress) ==
  [user_id |-> generateUserId(userAgent, ipAddress),
   user_agent |-> userAgent,
   ip_address |-> ipAddress,
   request_url |-> <<"/">>,
   was_request_redirected |-> 0,
   block_reason |-> null,
   created_at |-> 0]

RECURSIVE Repeat(_, _)
Repeat(rows, n) == IF n = 0 THEN <<>> ELSE rows \o Repeat(rows, n - 1)

\* n rows of every visitor
PersistedLogs(n) ==
  Repeat(<< PersistedRow(<<"G", "B">>, LocalAddress),
            PersistedRow(<<"g", "b", "x">>, LocalAddress),
            PersistedRow(<<"x", "B">>, LocalAddress),
            PersistedRow(<<"x">>, LocalAddress) >>, n)

InitClassify ==
  \E honeypot_enabled \in {"true", "false"}, max \in {<<"1">>, <<"2">>},
     badRows \in SUBSET BadAgentRows, goodRows \in SUBSET GoodAgentRows,
     n \in 0..MaxPersisted :
     Initialized(honeypot_enabled, <<"1">>, max, 1, badRows, goodRows, PersistedLogs(n))

NextClassify ==
  \/ \E request \in Requests :
        started < MaxClassified /\ ProcessRequest(1, request)
  \/ analyzeRequest(1)
  \/ checkRateLimitsWindow(1)
  \/ checkRateLimits(1)
  \/ analyzeRateLimit(1)
  \/ \E inserted \in BOOLEAN : logRequest(1, inserted)

SpecClassify == InitClassify /\ [][NextClassify]_vars

(* ------ SpecLifecycle: start-up, refresh and a store that can fail ------ *)

\* the requests of SpecLifecycle: a visitor that matches the deny pattern,
\* and one that matches it and equals the allow entry, when these are active
Visits == [userAgent : {<<"x", "B">>, <<"G", "B">>}, ipAddress : IpAddresses,
           path : {<<"/">>}, queryParams : {NoParams}]

\* the active rows of the agent tables: none, or the pattern and the entry
AgentTables == { [bad |-> {}, good |-> {}],
                 [bad |-> BadAgentRows, good |-> GoodAgentRows] }

\* the request_url of the rows the store holds at start-up
PersistedUrls == { <<"/">>,
                   <<"/", "a", ".", "h", "t", "m">>,
                   <<"/", "d", "a", "s", "h", "b", "o", "a", "r", "d", "/", "x">> }

\* warmupRateCounters, the loop over the rows: every timestamp is pushed onto
\* the list the map holds for its user
pushTimestamps(m, warm) ==
  [userId \in (DOMAIN m) \cup (DOMAIN warm) |-> MapGet(m, userId) \o MapGet(warm, userId)]

\* the promise of getContent while ensureInitialized awaits initialize
Waiting == {p \in Procs : calls[p].pc = "ensureInitialized"}

\* refreshKnownAgents is entered by initialize or by refreshCache
EnterRefresh(caller, round) ==
  /\ task' = [pc |-> "badAgents", caller |-> caller, round |-> round,
              rateLimitWindow |-> 0]
  /\ snapshot' = <<knownBadAgents, knownGoodAgents>>

\* a query of refreshKnownAgents failed: the error is thrown again. From
\* initialize it passes through ServiceContainer.initialize and
\* RobotDetectorV2.initialize to the getContent that awaits ensureInitialized
Throws ==
  /\ task' = IdleTask
  /\ calls' = [p \in Procs |-> IF p \in Waiting THEN IdleCall ELSE calls[p]]
  /\ returned' = IF Waiting # {} THEN rejected(IdleCall.detectionResult) ELSE returned

\* refreshKnownAgents after the query of known_bad_agents resolved
badAgentsQuery ==
  /\ task.pc = "badAgents"
  /\ IF storeOk
       THEN /\ knownBadAgents' = refreshKnownAgents(agentRows.bad)
            /\ task' = [task EXCEPT !.pc = "goodAgents"]
            /\ UNCHANGED <<calls, returned, functions>>
       ELSE Throws /\ UNCHANGED knownBadAgents
  /\ UNCHANGED <<clock, settings, config, knownGoodAgents, userRequests, requestLogs,
                 started, storeOk, agentRows, isInitialized, snapshot, functions>>

\* refreshKnownAgents after the query of known_good_agents resolved; from
\* initialize, rateLimitService.initialize follows
goodAgentsQuery ==
  /\ task.pc = "goodAgents"
  /\ IF storeOk
       THEN /\ knownGoodAgents' = refreshKnownAgents(agentRows.good)
            /\ task' = IF task.caller = "initialize"
                         THEN [task EXCEPT !.pc = "getRateLimitWindow"]
                         ELSE IdleTask
            /\ UNCHANGED <<calls, returned, functions>>
       ELSE Throws /\ UNCHANGED knownGoodAgents
  /\ UNCHANGED <<clock, settings, config, knownBadAgents, userRequests, requestLogs,
                 started, storeOk, agentRows, isInitialized, snapshot, functions>>

\* warmupRateCounters after getRateLimitWindow resolved
warmupWindow ==
  /\ task.pc = "getRateLimitWindow"
  /\ task' = [task EXCEPT !.pc = "warmup", !.rateLimitWindow = getRateLimitWindow]
  /\ UNCHANGED <<clock, settings, config, knownBadAgents, knownGoodAgents, userRequests,
                 requestLogs, calls, started, returned, storeOk, agentRows,
                 isInitialized, snapshot, functions>>

\* warmupRateCounters after its query resolved or failed (the error is
\* caught). ServiceContainer.initialize then calls honeypotService.initialize,
\* which initializes both services once more, and sets isInitialized
warmupQuery ==
  /\ task.pc = "warmup"
  /\ userRequests' =
        IF storeOk
          THEN pushTimestamps(userRequests,
                              warmupRateCounters(requestLogs, task.rateLimitWindow))
          ELSE userRequests
  /\ IF task.round = 1
       THEN /\ EnterRefresh("initialize", 2)
            /\ UNCHANGED <<calls, started, isInitialized, functions>>
       ELSE /\ task' = IdleTask
            /\ isInitialized' = TRUE
            /\ calls' = [p \in Procs |->
                 IF p \in Waiting
                   THEN [calls[p] EXCEPT !.pc = "getHoneypotStatus",
                           !.userId = generateUserId(calls[p].request.userAgent,
                                                     calls[p].request.ipAddress)]
                   ELSE calls[p]]
            /\ UNCHANGED <<started, snapshot, functions>>
  /\ UNCHANGED <<clock, settings, config, knownBadAgents, knownGoodAgents, requestLogs,
                 returned, storeOk, agentRows, functions>>

\* RobotDetectorV2.getContent: ensureInitialized, then processRequest. A
\* request that arrives while initialize is in progress is left out here
getContent(p, request) ==
  IF isInitialized
    THEN ProcessRequest(p, request)
    ELSE /\ calls[p].pc = "idle"
         /\ task.pc = "idle"
         /\ started' = started + 1
         /\ calls' = [calls EXCEPT ![p] =
               [IdleCall EXCEPT !.pc = "ensureInitialized", !.request = request]]
         /\ EnterRefresh("initialize", 1)
         /\ UNCHANGED <<clock, settings, config, knownBadAgents, knownGoodAgents,
                        userRequests, requestLogs, returned, storeOk, agentRows,
                        isInitialized, functions>>

\* an administrator changes the active rows of the agent tables and the
\* lists are refreshed (refreshCache)
refreshCache(badRows, goodRows) ==
  /\ isInitialized
  /\ task.pc = "idle"
  /\ agentRows' = [bad |-> badRows, good |-> goodRows]
  /\ EnterRefresh("refreshCache", 0)
  /\ UNCHANGED <<clock, settings, config, knownBadAgents, knownGoodAgents, userRequests,
                 requestLogs, calls, started, returned, storeOk, isInitialized, functions>>

\* the store stops answering, or answers again
StoreFails ==
  /\ storeOk' = ~ storeOk
  /\ UNCHANGED <<clock, settings, config, knownBadAgents, knownGoodAgents, userRequests,
                 requestLogs, calls, started, returned, agentRows, task,
                 isInitialized, snapshot, functions>>

\* the process is constructed on a store: the constructor of RobotDetectorV2
\* has called initialize, no query has resolved yet
Constructed(honeypot_enabled, badRows, goodRows, logs, ok) ==
  /\ clock = 0
  /\ settings = [honeypot_enabled |-> honeypot_enabled,
                 rate_limit_short_window |-> <<"1">>,
                 rate_limit_short_max |-> <<"1">>]
  /\ config = [rateLimitShortWindow |-> 1]
  /\ knownBadAgents = {}
  /\ knownGoodAgents = {}
  /\ requestLogs = logs
  /\ userRequests = <<>>
  /\ calls = [p \in Procs |-> IdleCall]
  /\ started = 0
  /\ returned = NotSettled
  /\ storeOk = ok
  /\ agentRows = [bad |-> badRows, good |-> goodRows]
  /\ task = [pc |-> "badAgents", caller |-> "initialize", round |-> 1,
             rateLimitWindow |-> 0]
  /\ isInitialized = FALSE
  /\ snapshot = <<{}, {}>>
  /\ seededRandom = NoSeededRandom
  /\ evaluations = <<>>
  /\ instances = <<>>
  /\ streams = <<>>
  /\ markov = MarkovChain
  /\ scan = NoScan

InitLifecycle ==
  \E honeypot_enabled \in {"true", "false"}, rows \in AgentTables,
     url \in PersistedUrls, n \in 0..MaxPersisted, ok \in BOOLEAN :
     Constructed(honeypot_enabled, rows.bad, rows.good,
                 Repeat(<<[PersistedRow(<<"x", "B">>, LocalAddress) EXCEPT !.request_url = url]>>, n),
                 ok)

NextLifecycle ==
  \/ \E request \in Visits : started < MaxServed /\ getContent(1, request)
  \/ badAgentsQuery
  \/ goodAgentsQuery
  \/ warmupWindow
  \/ warmupQuery
  \/ \E rows \in AgentTables : refreshCache(rows.bad, rows.good)
  \/ StoreFails
  \/ analyzeRequest(1)
  \/ checkRateLimitsWindow(1)
  \/ checkRateLimits(1)
  \/ analyzeRateLimit(1)
  \/ logRequest(1, storeOk)

SpecLifecycle == InitLifecycle /\ [][NextLifecycle]_vars

(* -------- SpecFunctions: generateUserId and SeededRandom on their own --- *)

\* the values a byte of a digest is drawn from
Bytes == {0, 1, 127, 128, 254, 255}

\* the arguments the functions are applied to
Agents == {<<"x">>, <<"x", "1">>}
Addresses == {LocalAddress, <<"0", ".", "0", ".", "0", ".", "1">>}
Ranges == {<<0, 1>>, <<0, 3>>, <<2, 5>>}
Arrays == {<<>>, << <<"a">> >>, << <<"a">>, <<"b">>, <<"c">> >>}

\* random: the index wraps at the end of the digest, the byte at the index is
\* read and the index moves on
wrapped(this) == IF this.index >= DigestLength THEN 0 ELSE this.index

advanced(this) == [this EXCEPT !.index = wrapped(this) + 1]

\* the number of values drawn from all the objects of SpecStreams
RECURSIVE DrawnFrom(_)
DrawnFrom(ids) ==
  IF ids = {} THEN 0
  ELSE LET i == CHOOSE x \in ids : TRUE
       IN Len(streams[i].values) + DrawnFrom(ids \ {i})

\* faulty variant: one index is shared by all the objects
randomSharedIndex(this) ==
  [numerator |-> this.hash[(DrawnFrom(DOMAIN streams) % DigestLength) + 1],
   denominator |-> 255]

\* random: the byte divided by 255, as a fraction
random(this) == [numerator |-> this.hash[wrapped(this) + 1], denominator |-> 255]

\* randomInt: Math.floor(random() * (max - min)) + min; for max - min below
\* 459 the floor of the product of doubles is the integer quotient
randomInt(this, min, max) ==
  (random(this).numerator * (max - min)) \div random(this).denominator + min

\* pick: undefined on an empty array, else array[randomInt(0, array.length)]
pick(this, array) ==
  IF Len(array) = 0 THEN undefined
  ELSE LET index == randomInt(this, 0, Len(array)) IN
       IF index < Len(array) THEN array[index + 1] ELSE undefined

(* ----------------------------- src/markov.js ---------------------------- *)

\* a seed is represented by the SHA-256 digest that the constructor of
\* SeededRandom computes from it

\* faulty variant: the index of the object is carried over from earlier calls
SeededRandomContinued(seed) == [hash |-> seed, index |-> Len(evaluations) % DigestLength]

\* new SeededRandom(seed)
SeededRandom(seed) == [hash |-> seed, index |-> 0]

\* this.words.add(word): a Set keeps insertion order
SetAdd(words, word) ==
  IF \E k \in 1..Len(words) : words[k] = word THEN words ELSE Append(words, word)

\* transitions.set(nextWord, (transitions.get(nextWord) || 0) + 1): a Map
\* keeps insertion order; an entry is <<nextWord, count>>
Counted(transitions, nextWord) ==
  IF \E k \in 1..Len(transitions) : transitions[k][1] = nextWord
    THEN [k \in 1..Len(transitions) |->
            IF transitions[k][1] = nextWord
              THEN <<nextWord, transitions[k][2] + 1>> ELSE transitions[k]]
    ELSE Append(transitions, <<nextWord, 1>>)

\* buildChainFromWords, from position i of the word list
RECURSIVE buildChainFromWords(_, _, _)
buildChainFromWords(this, words, i) ==
  IF i > Len(words) - 1 THEN this
  ELSE buildChainFromWords(
         [this EXCEPT !.words = SetAdd(SetAdd(this.words, words[i]), words[i + 1]),
                      !.chains = MapSet(this.chains, words[i],
                                        Counted(MapGet(this.chains, words[i]), words[i + 1])),
                      !.totalTransitions = this.totalTransitions + 1],
         words, i + 1)

\* buildIndex: the index is cleared, the words of every HTML file are chained,
\* isIndexed is set
RECURSIVE scanDirectory(_, _)
scanDirectory(this, files) ==
  IF files = <<>> THEN this
  ELSE scanDirectory(buildChainFromWords(this, Head(files), 1), Tail(files))

buildIndex(files) == [scanDirectory(MarkovChain, files) EXCEPT !.isIndexed = TRUE]

\* transitionArray.sort((a, b) => a[1] - b[1]): a stable insertion sort
RECURSIVE sortByCount(_)
sortByCount(entries) ==
  IF entries = <<>> THEN <<>>
  ELSE LET rest == sortByCount(SubSeq(entries, 1, Len(entries) - 1))
           last == entries[Len(entries)]
           before == SelectSeq(rest, LAMBDA e : e[2] <= last[2])
           after == SelectSeq(rest, LAMBDA e : e[2] > last[2])
       IN before \o <<last>> \o after

RECURSIVE totalCount(_)
totalCount(entries) ==
  IF entries = <<>> THEN 0 ELSE entries[1][2] + totalCount(Tail(entries))

\* the weighted selection: the first entry at which randomValue <= accumulator,
\* else the last entry; randomValue is value.numerator / 255 * total
RECURSIVE weighted(_, _, _, _, _)
weighted(entries, k, accumulator, value, total) ==
  IF k > Len(entries) THEN entries[Len(entries)][1]
  ELSE IF value.numerator * total <= (accumulator + entries[k][2]) * value.denominator
    THEN entries[k][1]
    ELSE weighted(entries, k + 1, accumulator + entries[k][2], value, total)

\* the outcome of a call that draws: the value returned, the SeededRandom
\* after the call, and whether a TypeError was thrown
Outcome(value, seededRandomAfter, threw) ==
  [value |-> value, seededRandom |-> seededRandomAfter, threw |-> threw]

\* getNextWord: null when the word has no transitions; a rare word from the
\* lower half when random() < 0.15 (a byte up to 38) and there are several
\* transitions, where pick(lowerHalf)[0] throws when pick returns undefined;
\* else the weighted selection
getNextWord(this, currentWord, rng) ==
  LET transitions == MapGet(this.chains, toLowerCase(currentWord))
      useRareWord == random(rng).numerator * 100 < 15 * random(rng).denominator
      second == advanced(rng)
      sorted == sortByCount(transitions)
      lowerHalf == SubSeq(sorted, 1, (Len(transitions) + 1) \div 2)
      picked == pick(second, lowerHalf)
  IN IF transitions = <<>> THEN Outcome(null, rng, FALSE)
     ELSE IF useRareWord /\ Len(transitions) > 1
       THEN IF picked = undefined
              THEN Outcome(null, advanced(second), TRUE)
              ELSE Outcome(picked[1], advanced(second), FALSE)
     ELSE Outcome(weighted(transitions, 1, 0, random(second), totalCount(transitions)),
                  advanced(second), FALSE)

\* getRandomWord: 'the' for an empty vocabulary or when pick returns
\* undefined, else the word picked
getRandomWord(this, rng) ==
  IF this.words = <<>> THEN Outcome(<<"t", "h", "e">>, rng, FALSE)
  ELSE LET selectedWord == pick(rng, this.words)
       IN Outcome(IF selectedWord = undefined THEN <<"t", "h", "e">> ELSE selectedWord,
                  advanced(rng), FALSE)

fallbackWords == << <<"t", "h", "e">>, <<"q", "u", "i", "c", "k">>, <<"b", "r", "o", "w", "n">>,
                   <<"f", "o", "x">>, <<"j", "u", "m", "p", "s">>, <<"o", "v", "e", "r">>,
                   <<"l", "a", "z", "y">>, <<"d", "o", "g">>, <<"a", "n", "d">>,
                   <<"r", "u", "n", "s">>, <<"t", "h", "r", "o", "u", "g", "h">>, <<"f", "o", "r", "e", "s", "t">> >>

\* generateWords without an index: length picks from fallbackWords
RECURSIVE fallbackPicks(_, _, _)
fallbackPicks(rng, length, result) ==
  IF Len(result) >= length THEN result
  ELSE fallbackPicks(advanced(rng), length, Append(result, pick(rng, fallbackWords)))

\* generateWords, the loop that asks again while the word was used and few of
\* the words were used (usedWords.size < this.words.size * 0.1)
RECURSIVE nextUnused(_, _, _, _, _)
nextUnused(this, currentWord, usedWords, nextWord, attempts) ==
  IF /\ ~ nextWord.threw
     /\ attempts < 5
     /\ nextWord.value # null
     /\ nextWord.value \in usedWords
     /\ Cardinality(usedWords) * 10 < Len(this.words)
    THEN nextUnused(this, currentWord, usedWords,
                    getNextWord(this, currentWord, nextWord.seededRandom), attempts + 1)
    ELSE nextWord

\* generateWords, the loop that picks another random word while the word was
\* used (usedWords.size < this.words.size * 0.5)
RECURSIVE randomUnused(_, _, _, _)
randomUnused(this, usedWords, currentWord, randomAttempts) ==
  IF /\ currentWord.value \in usedWords
     /\ randomAttempts < 10
     /\ Cardinality(usedWords) * 2 < Len(this.words)
    THEN randomUnused(this, usedWords, getRandomWord(this, currentWord.seededRandom),
                      randomAttempts + 1)
    ELSE currentWord

\* generateWords, result.push(nextWord): the next word is pushed unless the
\* word has no transitions; consecutiveRepeats counts repeats and dead ends
pushed(g, nextWord) ==
  IF nextWord.value # null
    THEN [g EXCEPT !.result = Append(@, nextWord.value),
                   !.usedWords = @ \cup {nextWord.value},
                   !.consecutiveRepeats =
                      IF nextWord.value # g.currentWord THEN 0 ELSE @ + 1,
                   !.currentWord = nextWord.value,
                   !.seededRandom = nextWord.seededRandom]
    ELSE [g EXCEPT !.consecutiveRepeats = @ + 1,
                   !.seededRandom = nextWord.seededRandom]

\* generateWords, after two repeats or dead ends a random word is pushed as well
restarted(g, randomWord) ==
  IF g.consecutiveRepeats >= 2
    THEN [g EXCEPT !.result = Append(@, randomWord.value),
                   !.usedWords = @ \cup {randomWord.value},
                   !.consecutiveRepeats = 0,
                   !.currentWord = randomWord.value,
                   !.seededRandom = randomWord.seededRandom]
    ELSE g

\* generateWords, usedWords is cleared when it holds more than a fifth of the
\* words
cleared(this, g) ==
  IF Cardinality(g.usedWords) * 5 > Len(this.words)
    THEN [g EXCEPT !.usedWords = {}]
    ELSE g

\* generateWords, one pass of the loop over i once the next word is known; a
\* TypeError of getNextWord ends the call
generateAfter(this, g, nextWord) ==
  IF nextWord.threw THEN [g EXCEPT !.threw = TRUE]
  ELSE cleared(this,
         restarted(pushed(g, nextWord),
                   randomUnused(this, pushed(g, nextWord).usedWords,
                                getRandomWord(this, pushed(g, nextWord).seededRandom), 0)))

\* generateWords, one pass of the loop over i
generateNext(this, g) ==
  generateAfter(this, g,
                nextUnused(this, g.currentWord, g.usedWords,
                           getNextWord(this, g.currentWord, g.seededRandom), 0))

RECURSIVE generateRemaining(_, _, _, _)
generateRemaining(this, g, i, length) ==
  IF g.threw \/ i >= length THEN g
  ELSE generateRemaining(this, generateNext(this, g), i + 1, length)

\* generateWords, the state of the loop before its first pass: the first word
\* is the only word of the result
firstWord(first) ==
  [result |-> <<first.value>>, usedWords |-> {first.value},
   consecutiveRepeats |-> 0, currentWord |-> first.value,
   seededRandom |-> first.seededRandom, threw |-> FALSE]

\* generateWords, return result
wordsOf(g) == [threw |-> g.threw, words |-> IF g.threw THEN <<>> ELSE g.result]

\* generateWords(length, seed, startWord): the words returned, or a TypeError
generateWords(this, length, seed, startWord) ==
  IF ~ this.isIndexed \/ this.words = <<>>
    THEN [threw |-> FALSE, words |-> fallbackPicks(SeededRandom(seed), length, <<>>)]
    ELSE wordsOf(generateRemaining(this,
                    firstWord(IF startWord # null
                              THEN Outcome(toLowerCase(startWord), SeededRandom(seed), FALSE)
                              ELSE getRandomWord(this, SeededRandom(seed))),
                    1, length))

(* ----------------------- src/unnamed/part_000 --------------------------- *)

Lowercase == <<"a", "b", "c", "d", "e", "f", "g", "h", "i", "j", "k", "l", "m", "n", "o", "p", "q", "r", "s", "t", "u", "v", "w", "x", "y", "z">>

Uppercase == <<"A", "B", "C", "D", "E", "F", "G", "H", "I", "J", "K", "L", "M", "N", "O", "P", "Q", "R", "S", "T", "U", "V", "W", "X", "Y", "Z">>

Digits == <<"0", "1", "2", "3", "4", "5", "6", "7", "8", "9">>

Range(s) == {s[k] : k \in DOMAIN s}

UpperChar(c) ==
  IF c \in Range(Lowercase)
    THEN Uppercase[CHOOSE k \in DOMAIN Lowercase : Lowercase[k] = c]
    ELSE c

toUpperCase(s) == [i \in 1..Len(s) |-> UpperChar(s[i])]

\* Number.prototype.toString of a natural number
RECURSIVE toString(_)
toString(n) ==
  IF n < 10 THEN <<Digits[n + 1]>>
  ELSE Append(toString(n \div 10), Digits[(n % 10) + 1])

\* \s of the regular expressions
Whitespace == {" ", "\n"}

\* [.,!?;:"'()[\]{}\-—–] of the regular expression of split, the two dashes
\* by their names
Punctuation == {".", ",", "!", "?", ";", ":", "\"", "'", "(", ")", "[", "]",
                "{", "}", "-", "emdash", "endash"}

\* [a-zA-Z0-9'] of the regular expression of the word test
WordChars == Range(Lowercase) \cup Range(Uppercase) \cup Range(Digits) \cup {"'"}

\* the characters of the seeds and their codes
Alphabet == Lowercase \o Uppercase \o Digits \o <<"_", "/", ".", "md5">>

charCode(c) ==
  IF c \in Range(Alphabet) THEN CHOOSE k \in DOMAIN Alphabet : Alphabet[k] = c ELSE 0

RECURSIVE checksum(_, _)
checksum(data, k) ==
  IF data = <<>> THEN 0
  ELSE checksum(SubSeq(data, 1, Len(data) - 1), k) + (Len(data) + k) * charCode(data[Len(data)])

\* crypto.createHash('sha256').update(seed.toString()).digest(): a digest of
\* DigestLength bytes that is a function of the characters of the seed and of
\* their places; the bytes are among those that decide the draws
DigestBytes == <<0, 128, 255, 38, 39>>

createHash(data) == [k \in 1..DigestLength |-> DigestBytes[(checksum(data, k) % Len(DigestBytes)) + 1]]

\* generateSeedFromPath that counts the pages served before
generateSeedFromPathAndCount(requestPath) ==
  <<"md5">> \o requestPath \o toString(Len(evaluations))

\* generateSeedFromPath: the MD5 of the path in hexadecimal, '/' for no path
generateSeedFromPath(requestPath) ==
  <<"md5">> \o (IF requestPath = <<>> THEN <<"/">> ELSE requestPath)

\* the last index of the run of whitespace that starts at i
RunEnd(text, i) ==
  CHOOSE j \in i..Len(text) :
     /\ \A k \in i..j : text[k] \in Whitespace
     /\ j = Len(text) \/ text[j + 1] \notin Whitespace

\* text.split(/(\s+|[.,!?;:"'()[\]{}\-—–])/): the texts between the separators
\* and the separators, in order
RECURSIVE split(_, _, _, _)
split(text, i, part, parts) ==
  IF i > Len(text) THEN Append(parts, part)
  ELSE IF text[i] \in Whitespace
    THEN split(text, RunEnd(text, i) + 1, <<>>,
               parts \o <<part, SubSeq(text, i, RunEnd(text, i))>>)
  ELSE IF text[i] \in Punctuation
    THEN split(text, i + 1, <<>>, parts \o <<part, <<text[i]>>>>)
  ELSE split(text, i + 1, Append(part, text[i]), parts)

\* part.match(/^[a-zA-Z0-9']+$/)
isWord(part) == part # <<>> /\ \A k \in DOMAIN part : part[k] \in WordChars

RECURSIVE join(_)
join(parts) == IF parts = <<>> THEN <<>> ELSE Head(parts) \o join(Tail(parts))

\* scrambleText, the word that replaces the word at parts[k]: the one word of
\* generateWords(1, wordSeed) in the capitalization of the original; a call for
\* one word makes no getNextWord call
finalWord(this, text, seed, parts, k) ==
  LET originalWord == parts[k]
      wordIndex == Cardinality({j \in 1..(k - 1) : isWord(parts[j])})
      wordSeed == seed \o toString(wordIndex) \o toString(k - 1) \o toString(Len(text))
      replacementWords == generateWords(this, 1, createHash(wordSeed), null).words
      replacementWord == replacementWords[1]
      capitalized == IF originalWord[1] = UpperChar(originalWord[1])
                       THEN <<UpperChar(replacementWord[1])>> \o Tail(replacementWord)
                       ELSE replacementWord
  IN IF Len(replacementWords) > 0 /\ replacementWord # undefined
       THEN IF originalWord = toUpperCase(originalWord) /\ Len(originalWord) > 1
              THEN toUpperCase(replacementWord)
              ELSE capitalized
       ELSE originalWord

\* scrambleText, result before the join
scrambledParts(this, text, seed) ==
  LET parts == split(text, 1, <<>>, <<>>)
  IN [k \in DOMAIN parts |->
        IF isWord(parts[k]) THEN finalWord(this, text, seed, parts, k) ELSE parts[k]]

scrambleText(this, text, seed) ==
  IF text = <<>> THEN text
  ELSE IF \A k \in DOMAIN split(text, 1, <<>>, <<>>) : ~ isWord(split(text, 1, <<>>, <<>>)[k])
    THEN text
  ELSE join(scrambledParts(this, text, seed))

\* /^[\s&\w;]*$/: the characters of a text block that is left as it is
EntityChars == Whitespace \cup {"&", ";", "_"} \cup Range(Lowercase) \cup Range(Uppercase)
                  \cup Range(Digits)

\* html.replace(/>([^<]+)</g, ...) from position i on: a match starts at a
\* '>' that is followed by one character or more other than '<' and then by a
\* '<', and the search goes on after that '<'
RECURSIVE replaceTextBlocks(_, _, _, _, _)
replaceTextBlocks(this, html, seed, i, textBlockIndex) ==
  IF i > Len(html) THEN <<>>
  ELSE IF /\ html[i] = ">"
          /\ i < Len(html) /\ html[i + 1] # "<"
          /\ \E j \in (i + 2)..Len(html) : html[j] = "<"
    THEN LET j == CHOOSE j \in (i + 2)..Len(html) :
                     html[j] = "<" /\ \A k \in (i + 1)..(j - 1) : html[k] # "<"
             textContent == SubSeq(html, i + 1, j - 1)
             blockSeed == seed \o <<"_", "b", "l", "o", "c", "k", "_">>
                               \o toString(textBlockIndex) \o <<"_">>
                               \o toString(Len(textContent))
         IN IF \A k \in DOMAIN textContent : textContent[k] \in EntityChars
              THEN SubSeq(html, i, j)
                      \o replaceTextBlocks(this, html, seed, j + 1, textBlockIndex)
              ELSE <<">">> \o scrambleText(this, textContent, blockSeed) \o <<"<">>
                      \o replaceTextBlocks(this, html, seed, j + 1, textBlockIndex + 1)
    ELSE <<html[i]>> \o replaceTextBlocks(this, html, seed, i + 1, textBlockIndex)

scrambleHtmlContent(this, html, seed) ==
  IF html = <<>> THEN html ELSE replaceTextBlocks(this, html, seed, 1, 0)

\* word.charAt(0).toUpperCase() + word.slice(1)
capitalize(word) == <<UpperChar(word[1])>> \o Tail(word)

\* Array.prototype.join: undefined is written as the empty string
RECURSIVE joinWith(_, _)
joinWith(words, separator) ==
  IF words = <<>> THEN <<>>
  ELSE (IF Head(words) = undefined THEN <<>> ELSE Head(words))
          \o (IF Len(words) = 1 THEN <<>> ELSE separator \o joinWith(Tail(words), separator))

\* formatSentences, from word i on: sentences of sentenceLength words, the
\* first word capitalized, each ended by '. '; a TypeError when the first word
\* of a sentence is undefined
RECURSIVE sentencesFrom(_, _, _)
sentencesFrom(words, i, sentenceLength) ==
  IF i > Len(words) THEN [threw |-> FALSE, text |-> <<>>]
  ELSE LET last == IF i + sentenceLength - 1 < Len(words) THEN i + sentenceLength - 1
                   ELSE Len(words)
           rest == sentencesFrom(words, last + 1, sentenceLength)
       IN IF words[i] = undefined \/ rest.threw THEN [threw |-> TRUE, text |-> <<>>]
          ELSE [threw |-> FALSE,
                text |-> joinWith(<<capitalize(words[i])>> \o SubSeq(words, i + 1, last),
                                  <<" ">>) \o <<".", " ">> \o rest.text]

\* String.prototype.trim at the end of the text
RECURSIVE trimEnd(_)
trimEnd(text) ==
  IF text # <<>> /\ text[Len(text)] \in Whitespace
    THEN trimEnd(SubSeq(text, 1, Len(text) - 1))
    ELSE text

formatSentences(words) ==
  IF Len(words) = 0 THEN [threw |-> FALSE, text |-> <<>>]
  ELSE LET sentences == sentencesFrom(words, 1, 8 + ((Len(words) * 5) \div 20))
       IN [sentences EXCEPT !.text = trimEnd(@)]

\* generateRandomBlogLinks, links.push: the link of the words generated goes
\* before the links that follow; a TypeError when a word is undefined
linked(words, rest) ==
  IF words.threw \/ (\E k \in DOMAIN words.words : words.words[k] = undefined)
     \/ rest.threw
    THEN [threw |-> TRUE, links |-> <<>>]
    ELSE [threw |-> FALSE,
          links |-> <<[url |-> <<"/", "b", "l", "o", "g", "/">>
                                  \o joinWith(words.words, <<"-">>) \o <<"/">>,
                       title |-> joinWith([k \in DOMAIN words.words |->
                                             capitalize(words.words[k])], <<" ">>)]>>
                    \o rest.links]

\* generateRandomBlogLinks, from link i on: the url and the title of five links
RECURSIVE blogLinksFrom(_, _, _, _)
blogLinksFrom(this, seed, i, seededRandom_) ==
  IF i >= 5 THEN [threw |-> FALSE, links |-> <<>>]
  ELSE linked(generateWords(this, randomInt(seededRandom_, 4, 6),
                 createHash(seed \o <<"_", "l", "i", "n", "k", "_">> \o toString(i)), null),
              blogLinksFrom(this, seed, i + 1, advanced(seededRandom_)))

generateRandomBlogLinks(this, seed) ==
  blogLinksFrom(this, seed, 0,
     SeededRandom(createHash(seed \o <<"_", "b", "l", "o", "g", "l", "i", "n", "k", "s">>)))

\* createDefaultScrambledPage, paragraphs.push: the sentences of the words
\* generated go before the paragraphs that follow
formatted(contentWords, rest) ==
  LET sentences == formatSentences(contentWords.words)
  IN IF contentWords.threw \/ sentences.threw \/ rest.threw
       THEN [threw |-> TRUE, paragraphs |-> <<>>]
       ELSE [threw |-> FALSE, paragraphs |-> <<sentences.text>> \o rest.paragraphs]

\* createDefaultScrambledPage, from paragraph i on
RECURSIVE paragraphsFrom(_, _, _, _, _)
paragraphsFrom(this, seed, i, paragraphCount, seededRandom_) ==
  IF i >= paragraphCount THEN [threw |-> FALSE, paragraphs |-> <<>>]
  ELSE formatted(generateWords(this, randomInt(seededRandom_, 15, 30),
                    createHash(seed \o <<"_", "c", "o", "n", "t", "e", "n", "t", "_">>
                                    \o toString(i)), null),
                 paragraphsFrom(this, seed, i + 1, paragraphCount,
                                advanced(seededRandom_)))

\* the content that getScrambledContent returns: null, or the parts of the
\* document that are not fixed text: the scrambled file, the title and the
\* paragraphs of the default page, the links
Content(html, title, paragraphs, blogLinks) ==
  [isNull |-> FALSE, html |-> html, title |-> title, paragraphs |-> paragraphs,
   blogLinks |-> blogLinks]

NullContent ==
  [isNull |-> TRUE, html |-> <<>>, title |-> <<>>, paragraphs |-> <<>>, blogLinks |-> <<>>]

\* createDefaultScrambledPage, the page of the title words, the paragraphs and
\* the links; a TypeError is caught by getScrambledContent, which returns null
defaultPage(requestPath, titleWords, paragraphs, blogLinks) ==
  LET At(k) == IF k <= Len(titleWords.words) THEN titleWords.words[k] ELSE undefined
  IN IF titleWords.threw \/ At(1) = undefined \/ paragraphs.threw \/ blogLinks.threw
       THEN NullContent
       ELSE Content(<<>>,
                    capitalize(At(1)) \o <<" ">> \o At(2) \o <<" ">> \o At(3)
                       \o <<" ", "-", " ">> \o requestPath,
                    paragraphs.paragraphs, blogLinks.links)

\* createDefaultScrambledPage: the title words, the paragraph count and the
\* paragraphs are drawn from SeededRandom(seed) in this order
createDefaultScrambledPage(this, requestPath) ==
  LET seed == generateSeedFromPath(requestPath)
      seededRandom_ == SeededRandom(createHash(seed))
  IN defaultPage(requestPath,
                 generateWords(this, randomInt(seededRandom_, 3, 12),
                               createHash(seed \o <<"_", "t", "i", "t", "l", "e">>), null),
                 paragraphsFrom(this, seed, 0, randomInt(advanced(seededRandom_), 5, 30),
                                advanced(advanced(seededRandom_))),
                 generateRandomBlogLinks(this, seed))

\* the files of the blog directory, by their path in the directory
BlogFiles == [name \in {<<"a", ".", "h", "t", "m", "l">>} |-> <<"<", "p", ">", "A", ",", " ", "b", ".", "<", "/", "p", ">", "<", "p", ">", "a", ".", "<", "/", "p", ">">>]

\* getScrambledContent, the four potential paths below the blog directory
potentialPaths(requestPath) ==
  LET filePath == IF requestPath = <<"/">>
                    THEN <<"i", "n", "d", "e", "x", ".", "h", "t", "m", "l">>
                    ELSE IF requestPath # <<>> /\ requestPath[1] = "/" THEN Tail(requestPath)
                    ELSE requestPath
  IN <<filePath,
       filePath \o <<"/", "i", "n", "d", "e", "x", ".", "h", "t", "m", "l">>,
       filePath \o <<".", "h", "t", "m", "l">>,
       filePath \o <<"/", "i", "n", "d", "e", "x", ".", "h", "t", "m", "l">>>>

\* __dirname and the directory of the blog, path.join(__dirname, 'blog')
dirname == <<"/", "s">>
blogStaticDir == dirname \o <<"/", "b">>

\* the files of the machine by their absolute path: those of the blog
\* directory, one of a directory beside it whose name starts with the name of
\* the blog directory, and one of __dirname
FileSystem ==
  LET private == <<"<", "p", ">", "k", ".", "<", "/", "p", ">">>
      beside == blogStaticDir \o <<"x", "/", "k", ".", "h", "t", "m", "l">>
      above == dirname \o <<"/", "k", ".", "h", "t", "m", "l">>
  IN [file \in {blogStaticDir \o <<"/">> \o name : name \in DOMAIN BlogFiles}
                  \cup {beside, above} |->
        IF file \in {beside, above} THEN private
        ELSE BlogFiles[SubSeq(file, Len(blogStaticDir) + 2, Len(file))]]

\* the segments of a path: the texts between its slashes
RECURSIVE segmentsOf(_, _, _, _)
segmentsOf(file, i, segment, segments) ==
  IF i > Len(file) THEN Append(segments, segment)
  ELSE IF file[i] = "/" THEN segmentsOf(file, i + 1, <<>>, Append(segments, segment))
  ELSE segmentsOf(file, i + 1, Append(segment, file[i]), segments)

\* path.resolve of an absolute path, segment by segment: '' and '.' are
\* dropped, '..' removes the segment before it, if there is one
RECURSIVE resolveSegments(_, _)
resolveSegments(segments, resolved) ==
  IF segments = <<>> THEN resolved
  ELSE IF Head(segments) \in {<<>>, <<".">>}
    THEN resolveSegments(Tail(segments), resolved)
  ELSE IF Head(segments) = <<".", ".">>
    THEN resolveSegments(Tail(segments),
                         IF resolved = <<>> THEN resolved
                         ELSE SubSeq(resolved, 1, Len(resolved) - 1))
  ELSE resolveSegments(Tail(segments), Append(resolved, Head(segments)))

RECURSIVE joinSegments(_)
joinSegments(segments) ==
  IF segments = <<>> THEN <<>>
  ELSE <<"/">> \o Head(segments) \o joinSegments(Tail(segments))

\* path.resolve of an absolute path: no '.', '..' or empty segment is left and
\* no slash at the end; '/' for the root
resolve(file) ==
  LET resolved == joinSegments(resolveSegments(segmentsOf(file, 1, <<>>, <<>>), <<>>))
  IN IF resolved = <<>> THEN <<"/">> ELSE resolved

\* path.resolve(path.join(this.blogStaticDir, ...)) of the four potential paths
resolvedPaths(requestPath) ==
  [k \in 1..4 |-> resolve(blogStaticDir \o <<"/">> \o potentialPaths(requestPath)[k])]

\* getScrambledContent, the loop: the potential paths that pass the security
\* check and are files; the first one is read
resolvedFiles(requestPath) ==
  SelectSeq(resolvedPaths(requestPath), LAMBDA resolved :
     /\ startsWith(resolved, resolve(blogStaticDir))
     /\ resolved \in DOMAIN FileSystem)

\* getScrambledContent, the file found: its scrambled text and the links
scrambledFile(html, blogLinks) ==
  IF blogLinks.threw THEN NullContent
  ELSE Content(html, <<>>, <<>>, blogLinks.links)

getScrambledContent(this, requestPath) ==
  LET found == resolvedFiles(requestPath)
      seed == generateSeedFromPath(requestPath)
  IN IF found = <<>> THEN createDefaultScrambledPage(this, requestPath)
     ELSE scrambledFile(scrambleHtmlContent(this, FileSystem[found[1]], seed),
                        generateRandomBlogLinks(this, seed))

(* ---------------------------- src/database.js --------------------------- *)

\* String.prototype.replace with a global pattern of fixed text, from i on
RECURSIVE replaceAll(_, _, _, _)
replaceAll(sql, pattern, replacement, i) ==
  IF i > Len(sql) THEN <<>>
  ELSE IF i + Len(pattern) - 1 <= Len(sql) /\ SubSeq(sql, i, i + Len(pattern) - 1) = pattern
    THEN replacement \o replaceAll(sql, pattern, replacement, i + Len(pattern))
    ELSE <<sql[i]>> \o replaceAll(sql, pattern, replacement, i + 1)

\* the last digit of the digits that start at i
DigitsEnd(sql, i) ==
  CHOOSE j \in i..Len(sql) :
     /\ \A k \in i..j : sql[k] \in Range(Digits)
     /\ j = Len(sql) \/ sql[j + 1] \notin Range(Digits)

\* .replace(/\$(\d+)/g, '?'), from i on
RECURSIVE replaceNumbered(_, _)
replaceNumbered(sql, i) ==
  IF i > Len(sql) THEN <<>>
  ELSE IF sql[i] = "$" /\ i < Len(sql) /\ sql[i + 1] \in Range(Digits)
    THEN <<"?">> \o replaceNumbered(sql, DigitsEnd(sql, i + 1) + 1)
    ELSE <<sql[i]>> \o replaceNumbered(sql, i + 1)

OnConflict == <<"O", "N", " ", "C", "O", "N", "F", "L", "I", "C", "T">>

\* .replace(/ON CONFLICT \([^)]+\) <action>/g, 'ON CONFLICT <action>'), from i on
RECURSIVE replaceConflictTarget(_, _, _)
replaceConflictTarget(sql, action, i) ==
  LET opened == i + Len(OnConflict) + 1
      Closed(j) == /\ sql[j] = ")"
                   /\ \A k \in (opened + 1)..(j - 1) : sql[k] # ")"
                   /\ j + 1 + Len(action) <= Len(sql)
                   /\ SubSeq(sql, j + 1, j + 1 + Len(action)) = <<" ">> \o action
  IN IF i > Len(sql) THEN <<>>
     ELSE IF /\ opened <= Len(sql)
             /\ SubSeq(sql, i, opened) = OnConflict \o <<" ", "(">>
             /\ \E j \in (opened + 2)..Len(sql) : Closed(j)
       THEN LET j == CHOOSE j \in (opened + 2)..Len(sql) : Closed(j)
            IN OnConflict \o <<" ">> \o action
                  \o replaceConflictTarget(sql, action, j + 2 + Len(action))
       ELSE <<sql[i]>> \o replaceConflictTarget(sql, action, i + 1)

\* adaptSQL: on sqlite the PostgreSQL syntax is rewritten, else the query is
\* returned as it is
adaptSQL(this, sql) ==
  IF this.dbType = "sqlite"
    THEN LET serial == replaceAll(sql, <<"S", "E", "R", "I", "A", "L", " ", "P", "R", "I", "M", "A", "R", "Y", " ", "K", "E", "Y">>,
                                  <<"I", "N", "T", "E", "G", "E", "R", " ", "P", "R", "I", "M", "A", "R", "Y", " ", "K", "E", "Y", " ", "A", "U", "T", "O", "I", "N", "C", "R", "E", "M", "E", "N", "T">>, 1)
             timestamp == replaceAll(serial, <<"T", "I", "M", "E", "S", "T", "A", "M", "P", " ", "D", "E", "F", "A", "U", "L", "T", " ", "C", "U", "R", "R", "E", "N", "T", "_", "T", "I", "M", "E", "S", "T", "A", "M", "P">>,
                                     <<"D", "A", "T", "E", "T", "I", "M", "E", " ", "D", "E", "F", "A", "U", "L", "T", " ", "C", "U", "R", "R", "E", "N", "T", "_", "T", "I", "M", "E", "S", "T", "A", "M", "P">>, 1)
             inet == replaceAll(timestamp, <<"I", "N", "E", "T">>, <<"T", "E", "X", "T">>, 1)
             numbered == replaceNumbered(inet, 1)
             update == replaceConflictTarget(numbered, <<"D", "O", " ", "U", "P", "D", "A", "T", "E", " ", "S", "E", "T">>, 1)
         IN replaceConflictTarget(update, <<"D", "O", " ", "N", "O", "T", "H", "I", "N", "G">>, 1)
    ELSE sql

(* ------------------------- the calls that are made ---------------------- *)

\* the call is recorded before the one that preceded it
Evaluated(op, args, result) ==
  <<[op |-> op, args |-> args, result |-> result]>>
     \o (IF evaluations = <<>> THEN <<>> ELSE <<evaluations[1]>>)

Random ==
  /\ evaluations' = Evaluated("random", <<>>, random(seededRandom))
  /\ seededRandom' = advanced(seededRandom)
  /\ UNCHANGED <<services, instances, streams, markov, scan>>

RandomInt(min, max) ==
  /\ evaluations' = Evaluated("randomInt", <<min, max>>, randomInt(seededRandom, min, max))
  /\ seededRandom' = advanced(seededRandom)
  /\ UNCHANGED <<services, instances, streams, markov, scan>>

Pick(array) ==
  /\ evaluations' = Evaluated("pick", array, pick(seededRandom, array))
  /\ seededRandom' = IF Len(array) = 0 THEN seededRandom ELSE advanced(seededRandom)
  /\ UNCHANGED <<services, instances, streams, markov, scan>>

GenerateUserId(userAgent, ipAddress) ==
  /\ evaluations' = Evaluated("generateUserId", <<userAgent, ipAddress>>,
                              generateUserId(userAgent, ipAddress))
  /\ UNCHANGED <<services, seededRandom, instances, streams, markov, scan>>

\* new SeededRandom(seed): the digest of the seed, index 0
InitFunctions ==
  \E hash \in [1..DigestLength -> Bytes] :
     /\ seededRandom = [hash |-> hash, index |-> 0]
     /\ evaluations = <<>>
     /\ instances = <<>>
     /\ streams = <<>>
     /\ markov = MarkovChain
     /\ scan = NoScan
     /\ ServicesIdle

NextFunctions ==
  \/ Random
  \/ \E range \in Ranges : RandomInt(range[1], range[2])
  \/ \E array \in Arrays : Pick(array)
  \/ \E userAgent \in Agents, ipAddress \in Addresses : GenerateUserId(userAgent, ipAddress)

SpecFunctions == InitFunctions /\ [][NextFunctions]_vars

(* ------- SpecStreams: SeededRandom objects drawn from side by side ------ *)

\* the seed strings, the objects constructed from them, and the values a
\* byte of their digests is drawn from
Seeds == {"a", "b"}
Instances == 1..3
StreamBytes == {0, 128, 255}

\* random() on object i
Draw(i) ==
  /\ Len(streams[i].values) < MaxDraws
  /\ streams' = [streams EXCEPT ![i].values = Append(@, random(instances[i]))]
  /\ instances' = [instances EXCEPT ![i] = advanced(@)]
  /\ UNCHANGED <<services, seededRandom, evaluations, markov, scan>>

\* new SeededRandom(seed) for every object: SHA-256 is a function of the
\* seed, so objects of one seed hold one digest
InitStreams ==
  \E digest \in [Seeds -> [1..DigestLength -> StreamBytes]], seed \in [Instances -> Seeds] :
     /\ instances = [i \in Instances |-> [hash |-> digest[seed[i]], index |-> 0]]
     /\ streams = [i \in Instances |-> [seed |-> seed[i], values |-> <<>>]]
     /\ seededRandom = NoSeededRandom
     /\ evaluations = <<>>
     /\ markov = MarkovChain
     /\ scan = NoScan
     /\ ServicesIdle

NextStreams == \E i \in Instances : Draw(i)

SpecStreams == InitStreams /\ [][NextStreams]_vars

(* --------------- SpecMarkov: generateWords on an index ------------------ *)

\* the word lists of the HTML files of the blog directory: no file; "a b",
\* where b has no transition; "a a", a self-transition; three files where a
\* has several transitions of different counts
Corpora == { <<>>,
             << <<<<"a">>, <<"b">>>> >>,
             << <<<<"a">>, <<"a">>>> >>,
             << <<<<"a">>, <<"b">>, <<"a">>, <<"c">>>>, <<<<"c">>, <<"a">>>>,
                <<<<"a">>, <<"c">>>> >> }

\* the digests of the seeds, and the start words
MarkovBytes == {0, 255}
MarkovSeeds == [1..DigestLength -> MarkovBytes]
StartWords == {null, <<"A">>}

\* markovChain.buildIndex() run by the constructor of ContentScrambler
BuildIndex(files) ==
  /\ ~ markov.isIndexed
  /\ markov' = buildIndex(files)
  /\ UNCHANGED <<services, seededRandom, evaluations, instances, streams, scan>>

\* markovChain.generateWords(length, seed, startWord)
\* the call is recorded before one of the calls that preceded it
GenerateWords(length, seed, startWord) ==
  /\ \E earlier \in IF evaluations = <<>> THEN {<<>>}
                     ELSE {<<evaluations[i]>> : i \in DOMAIN evaluations} :
        evaluations' = <<[op |-> "generateWords",
                          args |-> <<length, seed, startWord, markov>>,
                          result |-> generateWords(markov, length, seed, startWord)]>>
                          \o earlier
  /\ UNCHANGED <<services, seededRandom, instances, streams, markov, scan>>

InitMarkov ==
  /\ markov = MarkovChain
  /\ scan = NoScan
  /\ seededRandom = NoSeededRandom
  /\ evaluations = <<>>
  /\ instances = <<>>
  /\ streams = <<>>
  /\ ServicesIdle

NextMarkov ==
  \/ \E files \in Corpora : BuildIndex(files)
  \/ \E length \in 1..MaxWords, seed \in MarkovSeeds, startWord \in StartWords :
        GenerateWords(length, seed, startWord)

SpecMarkov == InitMarkov /\ [][NextMarkov]_vars

(* -------------- SpecScrambler: the scrambler on one input --------------- *)

\* the longest text
MaxText == 3

TextChars == {"a", "A", "1", "'", ".", " ", "_"}

RECURSIVE Strings(_, _)
Strings(chars, n) ==
  IF n = 0 THEN {<<>>}
  ELSE LET shorter == Strings(chars, n - 1)
       IN shorter \cup {Append(s, c) : s \in shorter, c \in chars}

Texts == Strings(TextChars, MaxText)

TextSeeds == {generateSeedFromPath(<<"/">>), generateSeedFromPath(<<"/", "a">>)}

\* scrambleText(text, seed) on the index of the moment
ScrambleText(text, seed) ==
  /\ evaluations = <<>>
  /\ evaluations' = <<[op |-> "scrambleText", args |-> <<text, seed, markov>>,
                       result |-> scrambleText(markov, text, seed)]>>
  /\ UNCHANGED <<services, seededRandom, instances, streams, markov, scan>>

\* the HTML of a blog file
Documents == { <<"<", "p", ">", "a", ".", "<", "/", "p", ">">>,
               <<"<", "p", ">", "a", " ", "b", "<", "/", "p", ">">>,
               <<"<", "i", " ", "t", "=", "\"", ">", "a", ".", "\"", ">", "A", ".", "<", "/", "i", ">">>,
               <<"<", "p", ">", "A", ",", " ", "b", ".", "<", "/", "p", ">", "<", "p", ">", "a", ".", "<", "/", "p", ">">>,
               <<"a", ".", "<", "p", ">">>,
               <<"<", "p", ">", " ", "<", "/", "p", ">", "<", "p", ">", "&", "a", ";", "<", "/", "p", ">">>,
               <<"<", "b", ">", "1", ".", "<", "i", ">", "a", ".", "<", "/", "i", ">", " ", "b", ".", "<", "/", "b", ">">> }

\* scrambleHtmlContent(html, seed) on the index of the moment
ScrambleHtmlContent(html, seed) ==
  /\ evaluations = <<>>
  /\ evaluations' = <<[op |-> "scrambleHtmlContent", args |-> <<html, seed, markov>>,
                       result |-> scrambleHtmlContent(markov, html, seed)]>>
  /\ UNCHANGED <<services, seededRandom, instances, streams, markov, scan>>

NextScrambler ==
  \/ \E files \in Corpora : BuildIndex(files)
  \/ \E text \in Texts, seed \in TextSeeds : ScrambleText(text, seed)
  \/ \E html \in Documents, seed \in TextSeeds : ScrambleHtmlContent(html, seed)

SpecScrambler == InitMarkov /\ [][NextScrambler]_vars

(* ----------------- SpecPages: the pages that are served ----------------- *)

PagePaths == { <<"/">>, <<"/", "a">> }

\* getScrambledContent(request.path) for the request of a visitor; the page is
\* recorded before one of the pages served earlier
GetScrambledContent(request) ==
  /\ LET content == getScrambledContent(markov, request.path)
     IN \E earlier \in IF evaluations = <<>> THEN {<<>>}
                        ELSE {<<evaluations[i]>> : i \in DOMAIN evaluations} :
           evaluations' = <<[op |-> "getScrambledContent",
                             args |-> <<request.path, markov, request.userAgent>>,
                             result |-> content]>> \o earlier
  /\ UNCHANGED <<services, seededRandom, instances, streams, markov, scan>>

NextPages ==
  \/ \E files \in Corpora : BuildIndex(files)
  \/ \E request \in [path : PagePaths, userAgent : {<<"x">>, <<"B">>}] :
        GetScrambledContent(request)

SpecPages == InitMarkov /\ [][NextPages]_vars

(* ------------------ SpecAdapter: adaptSQL on one query ------------------ *)

\* the longest query made of placeholders
MaxSql == 3

SqlChars == {"?", "$", "1", "a", ","}

\* the queries: those of placeholders, and one for each rewriting of adaptSQL
Queries == Strings(SqlChars, MaxSql) \cup
             { <<"k", " ", "=", " ", "?">>,
               <<"(", "?", ",", " ", "?", ")">>,
               <<"i", "d", " ", "S", "E", "R", "I", "A", "L", " ", "P", "R", "I", "M", "A", "R", "Y", " ", "K", "E", "Y">>,
               <<"t", " ", "T", "I", "M", "E", "S", "T", "A", "M", "P", " ", "D", "E", "F", "A", "U", "L", "T", " ", "C", "U", "R", "R", "E", "N", "T", "_", "T", "I", "M", "E", "S", "T", "A", "M", "P">>,
               <<"i", "p", " ", "I", "N", "E", "T">>,
               <<"(", "?", ")", " ", "O", "N", " ", "C", "O", "N", "F", "L", "I", "C", "T", " ", "(", "k", ")", " ", "D", "O", " ", "U", "P", "D", "A", "T", "E", " ", "S", "E", "T", " ", "v", " ", "=", " ", "?">>,
               <<"(", "?", ")", " ", "O", "N", " ", "C", "O", "N", "F", "L", "I", "C", "T", " ", "(", "k", ")", " ", "D", "O", " ", "N", "O", "T", "H", "I", "N", "G">>,
               <<"k", " ", "=", " ", "$", "1", " ", "A", "N", "D", " ", "v", " ", "=", " ", "$", "1", "2">> }

\* adaptSQL(sql) of an adapter of the database type
AdaptSQL(dbType, sql) ==
  /\ evaluations = <<>>
  /\ evaluations' = <<[op |-> "adaptSQL", args |-> <<dbType, sql>>,
                       result |-> adaptSQL([dbType |-> dbType], sql)]>>
  /\ UNCHANGED <<services, seededRandom, instances, streams, markov, scan>>

NextAdapter == \E dbType \in {"postgres", "sqlite"}, sql \in Queries : AdaptSQL(dbType, sql)

SpecAdapter == InitMarkov /\ [][NextAdapter]_vars

(* ------- SpecRebuild: buildIndex at its awaits, and its readers --------- *)

\* an entry of a directory: an HTML file with its words, or a subdirectory
\* with its HTML files
File(words) == [isDirectory |-> FALSE, files |-> <<words>>]
Subdirectory(files) == [isDirectory |-> TRUE, files |-> files]

\* blog directories: one file; a subdirectory without HTML files before a
\* file; a subdirectory before a file; a file before two subdirectories
Trees == { << File(<<<<"a">>, <<"b">>>>) >>,
           << Subdirectory(<<>>), File(<<<<"a">>, <<"b">>>>) >>,
           << Subdirectory(<< <<<<"a">>, <<"a">>>> >>), File(<<<<"a">>, <<"b">>>>) >>,
           << File(<<<<"a">>, <<"b">>, <<"a">>, <<"c">>>>),
              Subdirectory(<< <<<<"c">>, <<"a">>>> >>),
              Subdirectory(<< <<<<"a">>, <<"c">>>> >>) >> }

\* the values a byte of the digest of a seed is drawn from
RebuildBytes == {0, 128}

\* the HTML files of the entries, in the order of the scan
RECURSIVE filesOf(_)
filesOf(items) ==
  IF items = <<>> THEN <<>> ELSE Head(items).files \o filesOf(Tail(items))

\* scanDirectory runs to its next await: the entries up to the first
\* subdirectory, which is scanned to its end before the await returns control
awaited(items) ==
  IF \E k \in DOMAIN items : items[k].isDirectory
    THEN CHOOSE k \in DOMAIN items :
            items[k].isDirectory /\ \A j \in 1..(k - 1) : ~ items[j].isDirectory
    ELSE Len(items)

\* the position of the call after these entries: in scanDirectory after the
\* await of a subdirectory, or in buildIndex at await this.scanDirectory
suspended(items, directory, previous) ==
  [pc |-> IF \E k \in DOMAIN items : items[k].isDirectory
            THEN "scanDirectory" ELSE "buildIndex",
   items |-> SubSeq(items, awaited(items) + 1, Len(items)),
   directory |-> directory, previous |-> previous]

\* buildIndex is entered: chains and words of the live index are cleared,
\* totalTransitions is reset, and scanDirectory runs to its first await
EnterBuildIndex(directory) ==
  /\ scan.pc = "idle"
  /\ markov' = scanDirectory([markov EXCEPT !.chains = <<>>, !.words = <<>>,
                                            !.totalTransitions = 0],
                             filesOf(SubSeq(directory, 1, awaited(directory))))
  /\ scan' = suspended(directory, directory, markov)
  /\ UNCHANGED <<services, seededRandom, evaluations, instances, streams>>

\* scanDirectory resumes after the await of a subdirectory
ResumeScanDirectory ==
  /\ scan.pc = "scanDirectory"
  /\ markov' = scanDirectory(markov, filesOf(SubSeq(scan.items, 1, awaited(scan.items))))
  /\ scan' = suspended(scan.items, scan.directory, scan.previous)
  /\ UNCHANGED <<services, seededRandom, evaluations, instances, streams>>

\* buildIndex resumes after await this.scanDirectory: isIndexed is set
ResumeBuildIndex ==
  /\ scan.pc = "buildIndex"
  /\ markov' = [markov EXCEPT !.isIndexed = TRUE]
  /\ scan' = NoScan
  /\ UNCHANGED <<services, seededRandom, evaluations, instances, streams>>

NextRebuild ==
  \/ \E directory \in Trees : EnterBuildIndex(directory)
  \/ ResumeScanDirectory
  \/ ResumeBuildIndex
  \/ \E seed \in [1..DigestLength -> RebuildBytes] : GenerateWords(MaxWords, seed, null)

SpecRebuild == InitMarkov /\ [][NextRebuild]_vars

(* --- SpecRefresh: the agent tables change behind the running process ---- *)

\* another client of the store writes the active rows of the agent tables: no
\* method of UserAgentService runs
StoreEdited(badRows, goodRows) ==
  /\ agentRows # [bad |-> badRows, good |-> goodRows]
  /\ agentRows' = [bad |-> badRows, good |-> goodRows]
  /\ UNCHANGED <<clock, settings, config, knownBadAgents, knownGoodAgents, userRequests,
                 requestLogs, calls, started, returned, storeOk, task, isInitialized,
                 snapshot, functions>>

InitRefresh ==
  \E rows \in AgentTables : Constructed("true", rows.bad, rows.good, <<>>, TRUE)

NextRefresh ==
  \/ \E request \in Visits : started < MaxServed /\ getContent(1, request)
  \/ badAgentsQuery
  \/ goodAgentsQuery
  \/ warmupWindow
  \/ warmupQuery
  \/ \E rows \in AgentTables : refreshCache(rows.bad, rows.good)
  \/ \E rows \in AgentTables : StoreEdited(rows.bad, rows.good)
  \/ StoreFails
  \/ analyzeRequest(1)
  \/ checkRateLimitsWindow(1)
  \/ checkRateLimits(1)
  \/ analyzeRateLimit(1)
  \/ logRequest(1, storeOk)
  \/ cleanupRateCounters
  \/ Tick

\* what the event loop guarantees: a query that was sent resolves or fails, the
\* timer set by RateLimitService.initializeCleanupInterval fires, time passes.
\* Requests and the calls of an administrator may never come
FairRefresh ==
  /\ WF_vars(badAgentsQuery)
  /\ WF_vars(goodAgentsQuery)
  /\ WF_vars(warmupWindow)
  /\ WF_vars(warmupQuery)
  /\ WF_vars(cleanupRateCounters)
  /\ WF_vars(Tick)

SpecRefresh == InitRefresh /\ [][NextRefresh]_vars /\ FairRefresh

(* ------ SpecBlock: one visitor keeps on sending through a block --------- *)

\* one visitor on the front page, three seconds of window, one request allowed
Visitor == [userAgent |-> <<"x">>, ipAddress |-> LocalAddress, path |-> <<"/">>,
            queryParams |-> NoParams]

\* a second passes
Elapse ==
  /\ clock < MaxElapsed
  /\ clock' = clock + 1
  /\ UNCHANGED <<settings, config, knownBadAgents, knownGoodAgents,
                 userRequests, requestLogs, calls, started, returned, lifecycle, functions>>

InitBlock == Initialized("true", <<"3">>, <<"1">>, 3, {}, {}, <<>>)

NextBlock ==
  \/ \E p \in Procs : started < MaxSent /\ ProcessRequest(p, Visitor)
  \/ \E p \in Procs : analyzeRequest(p)
  \/ \E p \in Procs : checkRateLimitsWindow(p)
  \/ \E p \in Procs : checkRateLimits(p)
  \/ \E p \in Procs : analyzeRateLimit(p)
  \/ \E p \in Procs : logRequest(p, TRUE)
  \/ cleanupRateCounters
  \/ Elapse

SpecBlock == InitBlock /\ [][NextBlock]_vars

(* ------ SpecRestart: the process is stopped and started again ----------- *)

\* a visitor on neither list and one that equals the allow entry, on the front
\* page, with and without the scramble parameter
Returning == [userAgent : {<<"x">>, <<"G", "b">>}, ipAddress : IpAddresses,
              path : {<<"/">>}, queryParams : {NoParams, [k \in {"scramble"} |-> ""]}]

\* the process exits and a new one is started on the same store: the services
\* are constructed (empty sets, empty map) and ServiceContainer.initialize runs
\* to its end before a request is served: userAgentService.initialize,
\* rateLimitService.initialize, then honeypotService.initialize, which
\* initializes both once more. The calls in progress are lost
Restart ==
  LET warm == warmupRateCounters(requestLogs, getRateLimitWindow) IN
  /\ storeOk
  /\ knownBadAgents' = refreshKnownAgents(agentRows.bad)
  /\ knownGoodAgents' = refreshKnownAgents(agentRows.good)
  /\ userRequests' = pushTimestamps(pushTimestamps(<<>>, warm), warm)
  /\ calls' = [p \in Procs |-> IdleCall]
  /\ returned' = NotSettled
  /\ task' = IdleTask
  /\ isInitialized' = TRUE
  /\ snapshot' = <<refreshKnownAgents(agentRows.bad), refreshKnownAgents(agentRows.good)>>
  /\ UNCHANGED <<clock, settings, config, requestLogs, started, storeOk, agentRows,
                 functions>>

InitRestart ==
  \E honeypot_enabled \in {"true", "false"} :
     Initialized(honeypot_enabled, <<"1">>, <<"1">>, 1, BadAgentRows, GoodAgentRows, <<>>)

NextRestart ==
  \/ \E request \in Returning : started < MaxLogged /\ ProcessRequest(1, request)
  \/ analyzeRequest(1)
  \/ checkRateLimitsWindow(1)
  \/ checkRateLimits(1)
  \/ analyzeRateLimit(1)
  \/ logRequest(1, TRUE)
  \/ cleanupRateCounters
  \/ Tick
  \/ Restart

SpecRestart == InitRestart /\ [][NextRestart]_vars

(* ------ SpecInitialize: requests arrive while initialize is running ----- *)

\* a visitor that has no row in the request log of the store
Arrivals == [userAgent : {<<"x">>}, ipAddress : IpAddresses,
             path : {<<"/">>}, queryParams : {NoParams}]

\* the awaits of one call of RobotDetectorV2.initialize, in order: those of
\* userAgentService.initialize and rateLimitService.initialize as called by
\* ServiceContainer.initialize (1), then as called by
\* honeypotService.initialize (2)
Awaits == << "badAgents1", "goodAgents1", "getRateLimitWindow1", "warmup1",
             "badAgents2", "goodAgents2", "getRateLimitWindow2", "warmup2" >>

\* the calls of getContent that run initialize
Initializing == {p \in Procs : \E i \in DOMAIN Awaits : calls[p].pc = Awaits[i]}

\* RobotDetectorV2.getContent: ensureInitialized finds isInitialized false
\* while an earlier call of initialize is in progress, and calls initialize,
\* which calls ServiceContainer.initialize, whose isInitialized is false as well
ensureInitialized(p, request) ==
  IF isInitialized
    THEN ProcessRequest(p, request)
    ELSE /\ calls[p].pc = "idle"
         /\ started' = started + 1
         /\ calls' = [calls EXCEPT ![p] =
               [IdleCall EXCEPT !.pc = Awaits[1], !.request = request]]
         /\ UNCHANGED <<clock, settings, config, knownBadAgents, knownGoodAgents,
                        userRequests, requestLogs, returned, lifecycle, functions>>

\* the initialize that getContent called resumes from the await it is at: a
\* query of refreshKnownAgents, getRateLimitWindow or the query of
\* warmupRateCounters. After the last one both isInitialized flags are set
\* and getContent goes on to processRequest
initialize(p) ==
  LET c == calls[p]
      i == CHOOSE i \in DOMAIN Awaits : Awaits[i] = c.pc
  IN
  /\ p \in Initializing
  /\ storeOk
  /\ knownBadAgents' = IF i \in {1, 5} THEN refreshKnownAgents(agentRows.bad)
                       ELSE knownBadAgents
  /\ knownGoodAgents' = IF i \in {2, 6} THEN refreshKnownAgents(agentRows.good)
                        ELSE knownGoodAgents
  /\ userRequests' = IF i \in {4, 8}
                       THEN pushTimestamps(userRequests,
                               warmupRateCounters(requestLogs, c.rateLimitWindow))
                       ELSE userRequests
  /\ isInitialized' = IF i = 8 THEN TRUE ELSE isInitialized
  /\ calls' = [calls EXCEPT ![p] =
        IF i = 8
          THEN [c EXCEPT !.pc = "getHoneypotStatus", !.rateLimitWindow = 0,
                         !.userId = generateUserId(c.request.userAgent, c.request.ipAddress)]
          ELSE [c EXCEPT !.pc = Awaits[i + 1],
                         !.rateLimitWindow = IF i \in {3, 7} THEN getRateLimitWindow
                                             ELSE c.rateLimitWindow]]
  /\ UNCHANGED <<clock, settings, config, requestLogs, started, returned, storeOk,
                 agentRows, task, snapshot, functions>>

InitInitialize ==
  \E n \in 0..MaxPersisted :
     Constructed("true", BadAgentRows, GoodAgentRows,
                 Repeat(<<PersistedRow(<<"x", "B">>, LocalAddress)>>, n), TRUE)

NextInitialize ==
  \/ \E p \in Procs, request \in Arrivals :
        started < MaxRequests /\ ensureInitialized(p, request)
  \/ \E p \in Procs : initialize(p)
  \/ badAgentsQuery
  \/ goodAgentsQuery
  \/ warmupWindow
  \/ warmupQuery
  \/ \E p \in Procs : analyzeRequest(p)
  \/ \E p \in Procs : checkRateLimitsWindow(p)
  \/ \E p \in Procs : checkRateLimits(p)
  \/ \E p \in Procs : analyzeRateLimit(p)
  \/ \E p \in Procs : logRequest(p, TRUE)

SpecInitialize == InitInitialize /\ [][NextInitialize]_vars

(* ------ SpecTraversal: request paths that leave the blog directory ------ *)

TraversalPaths ==
  { <<"/", "a">>,                                   \* a page of the blog
    <<"/", "x", "/", ".", ".", "/", "a">>,          \* the same page
    <<"/", ".", ".">>,                              \* __dirname
    <<"/", ".", ".", "/", "k">>,                    \* the file of __dirname
    <<"/", ".", ".", "/", "b", "/", "a">>,          \* out and in again
    <<"/", ".", ".", "/", "b", "x", "/", "k">> }    \* the file of the directory beside

\* the blog directory holds no HTML file, or one with the words "a b"
TraversalCorpora == { <<>>, << <<<<"a">>, <<"b">>>> >> }

NextTraversal ==
  \/ \E files \in TraversalCorpora : BuildIndex(files)
  \/ \E request \in [path : TraversalPaths, userAgent : {<<"x">>}] :
        GetScrambledContent(request)

SpecTraversal == InitMarkov /\ [][NextTraversal]_vars

(* ------ SpecMalformed: requests that make the analysis throw ------------ *)

\* getContent called with and without a path, by a visitor on neither list
\* and by one that matches the deny pattern, with and without the scramble
\* parameter
Malformed == [userAgent : {<<"x">>, <<"x", "B">>}, ipAddress : IpAddresses,
              path : {undefined, <<"/">>},
              queryParams : {NoParams, [k \in {"scramble"} |-> ""]}]

InitMalformed ==
  \E honeypot_enabled \in {"true", "false"} :
     Initialized(honeypot_enabled, <<"1">>, <<"1">>, 1, BadAgentRows, GoodAgentRows, <<>>)

NextMalformed ==
  \/ \E request \in Malformed : started < MaxMalformed /\ ProcessRequest(1, request)
  \/ analyzeRequest(1)
  \/ checkRateLimitsWindow(1)
  \/ checkRateLimits(1)
  \/ analyzeRateLimit(1)
  \/ logRequest(1, TRUE)

SpecMalformed == InitMalformed /\ [][NextMalformed]_vars

(* ================= the statements of the specification ================== *)

(* -------------------- vocabulary of the specification ------------------- *)

\* the path is HTML-classified: "/", *.html, *.htm, a trailing slash, or no dot
HtmlPath(path) ==
  \/ path = <<"/">>
  \/ \E n \in 1..Len(path) :
        SubSeq(path, n, Len(path)) \in { <<".", "h", "t", "m", "l">>,
                                         <<".", "h", "t", "m">>, <<"/">> }
  \/ \A n \in 1..Len(path) : path[n] # "."

\* the path is excluded from rate limiting: /api/..., /dashboard.html,
\* /dashboard, /dashboard/...
ExcludedPath(path) ==
  LET api == <<"/", "a", "p", "i", "/">>
      dashboard == <<"/", "d", "a", "s", "h", "b", "o", "a", "r", "d">>
  IN \/ \E rest \in {SubSeq(path, n, Len(path)) : n \in 1..(Len(path) + 1)} :
           path = api \o rest \/ path = dashboard \o <<"/">> \o rest
     \/ path = dashboard
     \/ path = dashboard \o <<".", "h", "t", "m", "l">>

\* the request is one the limiter counts unless a list decides it
CountablePath(path) == HtmlPath(path) /\ ~ ExcludedPath(path)

\* the lowercased user agent equals an active allow-list entry
AllowListed(userAgent) == toLowerCase(userAgent) \in knownGoodAgents

\* the lowercased user agent contains an active deny-list pattern
DenyListed(userAgent) ==
  \E pattern \in knownBadAgents :
     \E i \in 1..(Len(userAgent) + 1), j \in 0..Len(userAgent) :
        SubSeq(toLowerCase(userAgent), i, j) = pattern

\* the calls whose analyzeRequest has returned its DetectionResult
Analyzed == {p \in Procs : calls[p].pc = "logRequest"}

\* the number of timestamps stored for the visitor of call p
StoredCount(p) == Len(MapGet(userRequests, calls[p].userId))

(* --------------------------------- C1 ----------------------------------- *)

Checked == {p \in Procs : calls[p].pc = "checkRateLimits"}

\* the timestamps of the list read by call p that lay inside its window: the
\* earlier counted requests of the visitor in the window
EarlierInWindow(p) ==
  Cardinality({i \in 1..Len(calls[p].userTimestamps) :
                 calls[p].userTimestamps[i] > calls[p].now - calls[p].rateLimitWindow})

\* C2, as stated: with a window W and a maximum M, of the countable requests
\* of one visitor inside one window the first M are allowed and the (M+1)-th
\* is reported exceeded with a count of M+1.
C2_RateLimitBoundary ==
  \A p \in Checked :
     LET M == parseInt(settings.rate_limit_short_max)
         result == calls[p].rateLimitResult
     IN /\ EarlierInWindow(p) < M => ~ result.exceeded
        /\ EarlierInWindow(p) = M => result.exceeded /\ result.shortCount = M + 1

(* --------------------------------- C3 ----------------------------------- *)

\* the timestamps of one list inside the window that ends at its i-th entry
InWindowEndingAt(timestamps, i) ==
  Cardinality({j \in 1..Len(timestamps) :
                 /\ timestamps[j] <= timestamps[i]
                 /\ timestamps[j] > timestamps[i] - getRateLimitWindow})

\* C3, as stated: under every interleaving of the requests of one visitor
\* the check and the append are atomic: no list holds more timestamps inside
\* one window than requests served one after the other leave there, M+1.
C3_AtomicCheckAndAppend ==
  \A userId \in DOMAIN userRequests :
     \A i \in 1..Len(userRequests[userId]) :
        InWindowEndingAt(userRequests[userId], i) <= getRateLimitMax + 1

(* --------------------------------- C4 ----------------------------------- *)

NoScramble(p) == "scramble" \notin DOMAIN calls[p].request.queryParams

\* C4: a request on an HTML, non-excluded path without a scramble parameter
\* whose user agent equals an active allow-list entry is always allowed, even
\* when the stored count of its visitor exceeds the maximum.
C4_AllowListedAllowed ==
  \A p \in Analyzed :
     /\ AllowListed(calls[p].request.userAgent)
     /\ CountablePath(calls[p].request.path)
     /\ NoScramble(p)
     => calls[p].detectionResult = allowed(calls[p].userId)

\* the honeypot is enabled, the allow-listed user agent also contains a deny
\* pattern and its visitor is over the maximum: the request is allowed
C4_Witness ==
  \E p \in Analyzed :
     /\ settings.honeypot_enabled = "true"
     /\ AllowListed(calls[p].request.userAgent)
     /\ DenyListed(calls[p].request.userAgent)
     /\ CountablePath(calls[p].request.path)
     /\ NoScramble(p)
     /\ StoredCount(p) > parseInt(settings.rate_limit_short_max)
     /\ calls[p].detectionResult = allowed(calls[p].userId)

(* --------------------------------- C5 ----------------------------------- *)

\* the calls that went through checkRateLimits
RateChecked == {p \in Procs : calls[p].pc \in {"checkRateLimits", "logRequest"}
                              /\ calls[p].rateLimitWindow # 0}

\* every timestamp that call p read is at least one window older than the call
AllExpired(p) ==
  \A i \in 1..Len(calls[p].userTimestamps) :
     calls[p].userTimestamps[i] <= calls[p].now - calls[p].rateLimitWindow

\* C5: after M requests of a visitor and a wait longer than W, one more
\* request is allowed: the timestamps older than now - W are dropped from the
\* list and not counted.
C5_ExpiredNotCounted ==
  \A p \in RateChecked :
     AllExpired(p) =>
        /\ calls[p].rateLimitResult.shortCount = 0
        /\ ~ calls[p].rateLimitResult.exceeded
        /\ \A i \in 1..StoredCount(p) :
              userRequests[calls[p].userId][i] > calls[p].now - calls[p].rateLimitWindow
        /\ calls[p].pc = "logRequest"
              => calls[p].detectionResult = allowed(calls[p].userId)

\* a request that read a list of M or more timestamps, all expired, is allowed
C5_Witness ==
  \E p \in RateChecked :
     /\ calls[p].pc = "logRequest"
     /\ Len(calls[p].userTimestamps) >= parseInt(settings.rate_limit_short_max)
     /\ calls[p].userTimestamps # <<>>
     /\ AllExpired(p)
     /\ calls[p].detectionResult = allowed(calls[p].userId)

(* --------------------------------- C6 ----------------------------------- *)

\* call p takes the step of analyzeRequest that follows the read of the toggle
Analyzes(p) == calls[p].pc = "getHoneypotStatus" /\ calls'[p] # calls[p]

\* call p takes the step of processRequest that follows the log insert
Returns(p) == calls[p].pc = "logRequest" /\ calls'[p] # calls[p]

InFlight == {p \in Procs : calls[p].pc # "idle"}

\* C7, as stated: isKnownBadAgent(userAgent) is true exactly when the
\* lowercased user agent contains an active deny-list pattern, and, the
\* honeypot being enabled, a request on an HTML, non-excluded path without a
\* scramble parameter whose user agent is deny-listed and not allow-listed is
\* blocked with the known-bad-agent reason whatever its rate count.
C7_DenyListedBlocked ==
  /\ \A p \in InFlight :
        isKnownBadAgent(calls[p].request.userAgent) = DenyListed(calls[p].request.userAgent)
  /\ \A p \in Analyzed :
        /\ settings.honeypot_enabled = "true"
        /\ CountablePath(calls[p].request.path)
        /\ NoScramble(p)
        /\ DenyListed(calls[p].request.userAgent)
        /\ ~ AllowListed(calls[p].request.userAgent)
        => calls[p].detectionResult = knownBadAgent(calls[p].userId)

(* --------------------------------- C8 ----------------------------------- *)

\* C8, as stated: allow-list membership is exact match: isKnownGoodAgent is
\* true of a user agent only if its lowercased form equals an active
\* allow-list entry; containing an entry as a substring does not count.
C8_AllowListExactMatch ==
  \A p \in InFlight :
     isKnownGoodAgent(calls[p].request.userAgent) => AllowListed(calls[p].request.userAgent)

(* --------------------------------- C9 ----------------------------------- *)

\* C9: a request without a scramble parameter whose path is not
\* HTML-classified or is excluded is allowed for every user agent, deny-listed
\* ones included, and leaves the rate state as it was.
C9_UncountedPathAllowed ==
  [][ \A p \in Procs :
        /\ Analyzes(p)
        /\ NoScramble(p)
        /\ ~ CountablePath(calls[p].request.path)
        => /\ calls'[p].pc = "logRequest"
           /\ calls'[p].detectionResult = allowed(calls[p].userId)
           /\ calls'[p].rateLimitResult = NoRateLimitResult
           /\ userRequests' = userRequests ]_vars

\* the honeypot is enabled and a deny-listed visitor over the maximum is
\* allowed on a sub-path of /dashboard/
C9_Witness ==
  \E p \in Analyzed :
     /\ settings.honeypot_enabled = "true"
     /\ NoScramble(p)
     /\ HtmlPath(calls[p].request.path)
     /\ ExcludedPath(calls[p].request.path)
     /\ calls[p].request.path \notin
           { <<"/", "d", "a", "s", "h", "b", "o", "a", "r", "d">>,
             <<"/", "a", "p", "i", "/", "x">> }
     /\ DenyListed(calls[p].request.userAgent)
     /\ ~ AllowListed(calls[p].request.userAgent)
     /\ StoredCount(p) > parseInt(settings.rate_limit_short_max)
     /\ calls[p].detectionResult = allowed(calls[p].userId)

(* --------------------------------- C10 ---------------------------------- *)

\* the list of the visitor is longer after the step than before it
Appended(userId) ==
  Len(MapGet(userRequests', userId)) > Len(MapGet(userRequests, userId))

\* call p takes the step that ends its analysis and is allowed as countable:
\* honeypot enabled, no scramble parameter, HTML non-excluded path, the user
\* agent passed both lists, the limit is not exceeded
AllowedCountable(p) ==
  /\ calls[p].pc = "checkRateLimits"
  /\ calls'[p].pc = "logRequest"
  /\ calls'[p].detectionResult = allowed(calls[p].userId)
  /\ calls[p].honeypotEnabled
  /\ NoScramble(p)
  /\ CountablePath(calls[p].request.path)
  /\ ~ AllowListed(calls[p].request.userAgent)
  /\ ~ DenyListed(calls[p].request.userAgent)
  /\ ~ calls[p].rateLimitResult.exceeded

\* C10: a timestamp is appended only by a request that passed every check
\* and is allowed as countable: exactly one, to the list of its visitor alone.
\* Requests that are blocked, carry a scramble parameter, ask for a non-HTML
\* or excluded path, are allow-listed or arrive while the honeypot is
\* disabled append nothing.
C10_AppendOnlyWhenCounted ==
  [][ \A userId \in DOMAIN userRequests' :
        Appended(userId) =>
           \E p \in Procs :
              /\ AllowedCountable(p)
              /\ calls[p].userId = userId
              /\ userRequests' =
                    MapSet(userRequests, userId,
                           Append(MapGet(userRequests, userId), clock * SECONDS)) ]_vars

\* a countable request was allowed and the list of its visitor holds the
\* timestamps it counted and one more
C10_Witness ==
  \E p \in Analyzed :
     /\ calls[p].rateLimitWindow # 0
     /\ calls[p].rateLimitResult.shortCount > 0
     /\ calls[p].detectionResult = allowed(calls[p].userId)
     /\ StoredCount(p) = calls[p].rateLimitResult.shortCount + 1

(* --------------------------------- C11 ---------------------------------- *)

\* the step appends one row to the request log and the visitor id, the
\* blocked flag and the reason of the row are those of the decision returned
AppendsDecision ==
  /\ Len(requestLogs') = Len(requestLogs) + 1
  /\ SubSeq(requestLogs', 1, Len(requestLogs)) = requestLogs
  /\ returned'.status = "fulfilled"
  /\ LET row == requestLogs'[Len(requestLogs')] IN
        /\ row.user_id = returned'.value.userId
        /\ row.was_request_redirected = (IF returned'.value.shouldScramble THEN 1 ELSE 0)
        /\ row.block_reason = returned'.value.redirectReason

\* C11, as stated: every processed request, allowed or blocked, produces
\* exactly one append to the audit log, and the logged visitor id, blocked
\* flag and reason are those of the decision returned to the caller.
C11_ExactlyOneAppend ==
  [][ \A p \in Procs : Returns(p) => AppendsDecision ]_vars

\* C11, amended: every processed request, allowed or blocked, produces at
\* most one append to the audit log: exactly one when the log write succeeds,
\* none when it fails. Nothing but a processed request appends, and the logged
\* visitor id, blocked flag and reason are those of the decision returned to
\* the caller (reason null when allowed).
C11_AtMostOneAppend ==
  [][ /\ \A p \in Procs : Returns(p) => AppendsDecision \/ requestLogs' = requestLogs
      /\ requestLogs' # requestLogs => \E p \in Procs : Returns(p) ]_vars

\* a request blocked for its rate was returned and is the last row of the log
C11_Witness ==
  /\ returned.status = "fulfilled"
  /\ returned.value.shouldScramble
  /\ requestLogs # <<>>
  /\ LET row == requestLogs[Len(requestLogs)] IN
        /\ row.user_id = returned.value.userId
        /\ row.was_request_redirected = 1
        /\ row.block_reason = returned.value.redirectReason
        /\ row.block_reason \notin {<<"Scramble parameter detected">>,
                                    <<"Known bad user agent">>, null}

(* --------------------------------- C12 ---------------------------------- *)

\* C12: when the audit-log write fails, processRequest still completes and
\* returns the decision of the analysis, as it does when the write succeeds;
\* the failure does not reach the caller and the limiter is left as it is.
C12_LogFailureSwallowed ==
  [][ \A p \in Procs :
        Returns(p) =>
           /\ returned' = fulfilled(calls[p].detectionResult)
           /\ calls'[p].pc = "idle"
           /\ userRequests' = userRequests ]_vars

\* a blocked decision was returned and no row of the log is a blocked one:
\* the write of that request had failed
C12_Witness ==
  /\ returned.status = "fulfilled"
  /\ returned.value.shouldScramble
  /\ \A i \in 1..Len(requestLogs) : requestLogs[i].was_request_redirected = 0

(* --------------------------------- C13 ---------------------------------- *)

\* call p takes the step of checkRateLimits that filters, stores and counts
Checks(p) == calls[p].pc = "getRateLimitMax" /\ calls'[p].pc = "checkRateLimits"

\* call p takes the step that appends its timestamp
Counts(p) ==
  /\ calls[p].pc = "checkRateLimits"
  /\ calls'[p].pc = "logRequest"
  /\ userRequests' # userRequests

\* the sweep removes something
Sweeps == calls' = calls /\ clock' = clock /\ userRequests' # userRequests

\* C13, as stated: after every operation on the map of the limiter (rate
\* check, append, sweep) every timestamp stored for any visitor is inside the
\* trailing window: not older than now minus the window W of the settings.
C13_AllInsideWindow ==
  [][ (Sweeps \/ \E p \in Procs : Checks(p) \/ Counts(p)) =>
         \A userId \in DOMAIN userRequests' :
            \A i \in 1..Len(userRequests'[userId]) :
               userRequests'[userId][i] >= clock' * SECONDS - getRateLimitWindow ]_vars

\* C13, amended: after checkRateLimits(userId) every timestamp stored for
\* that visitor is newer than t - W, where t is the time at which the check
\* was entered and W the window it read from the settings, and the append
\* adds the current time at the end of that list. The lists of the other
\* visitors are not touched: they keep expired timestamps until their own next
\* check or the sweep.
C13_CheckedListInsideWindow ==
  [][ \A p \in Procs :
        /\ Checks(p) =>
              /\ \A i \in 1..Len(userRequests'[calls[p].userId]) :
                    userRequests'[calls[p].userId][i] > calls[p].now - calls[p].rateLimitWindow
              /\ \A userId \in DOMAIN userRequests :
                    userId # calls[p].userId => userRequests'[userId] = userRequests[userId]
        /\ Counts(p) =>
              /\ userRequests'[calls[p].userId] =
                    Append(MapGet(userRequests, calls[p].userId), clock * SECONDS)
              /\ \A userId \in DOMAIN userRequests :
                    userId # calls[p].userId => userRequests'[userId] = userRequests[userId] ]_vars

\* a check dropped the expired timestamps of its visitor while the list of
\* another visitor holds a timestamp older than the window
C13_Witness ==
  \E p \in Checked :
     /\ calls[p].rateLimitResult.shortCount < Len(calls[p].userTimestamps)
     /\ \A i \in 1..StoredCount(p) :
           userRequests[calls[p].userId][i] > calls[p].now - calls[p].rateLimitWindow
     /\ \E userId \in DOMAIN userRequests :
           /\ userId # calls[p].userId
           /\ \E i \in 1..Len(userRequests[userId]) :
                 userRequests[userId][i] < calls[p].now - calls[p].rateLimitWindow

(* --------------------------------- C14 ---------------------------------- *)

\* the timestamps of a list that a rate check entered now would count
StillCounted(timestamps) ==
  SelectSeq(timestamps, LAMBDA ts : ts > clock * SECONDS - getRateLimitWindow)

\* C14, as stated: the sweep removes, for every tracked visitor, exactly the
\* timestamps older than the window that checkRateLimits applies: it never
\* removes a timestamp that a rate check would still count, and it leaves no
\* visitor with an empty list in the map.
C14_SweepMatchesWindow ==
  [][ Sweeps =>
         /\ DOMAIN userRequests' =
               {userId \in DOMAIN userRequests : StillCounted(userRequests[userId]) # <<>>}
         /\ \A userId \in DOMAIN userRequests' :
               userRequests'[userId] = StillCounted(userRequests[userId]) ]_vars

(* --------------------------------- C15 ---------------------------------- *)

\* initialize of the container completes
StartupCompletes == ~ isInitialized /\ isInitialized'

\* the persisted rows of a visitor that lie inside the trailing window of the
\* stored setting and were requests of an HTML page on a non-excluded URL
PersistedInWindow(userId) ==
  SelectSeq(requestLogs, LAMBDA row :
     /\ row.user_id = userId
     /\ row.created_at > Now - parseInt(settings.rate_limit_short_window) * SECONDS
     /\ CountablePath(row.request_url))

\* C15, as stated: when start-up initialization completes, the window of every
\* visitor holds exactly one timestamp for each of its persisted rows inside
\* the trailing window whose URL is an HTML page on a non-excluded URL, or,
\* the warm-up query having failed, the map is empty; start-up does not fail
\* for it.
C15_WarmupOnePerRow ==
  [][ StartupCompletes =>
         \/ userRequests' = <<>>
         \/ \A row \in {requestLogs[i] : i \in 1..Len(requestLogs)} :
               Len(MapGet(userRequests', row.user_id)) = Len(PersistedInWindow(row.user_id)) ]_vars

(* --------------------------------- C16 ---------------------------------- *)

\* the two versions of the agent lists: the pair held when the last refresh
\* was entered, and the pair of the rows now active in the tables
OldLists == snapshot
NewLists == <<refreshKnownAgents(agentRows.bad), refreshKnownAgents(agentRows.good)>>

\* C16, as stated: a refresh of the agent lists is atomic for readers: a
\* request that is classified reads the deny list and the allow list of one
\* version, never the new deny list with the old allow list or the reverse,
\* also when the refresh fails after its first query.
C16_ReadersSeeOneVersion ==
  [][ (\E p \in Procs : Analyzes(p)) =>
         <<knownBadAgents, knownGoodAgents>> \in {OldLists, NewLists} ]_vars

(* --------------------------------- C17 ---------------------------------- *)

\* a query of the agent lists fails, at start-up or in a later refresh
AgentReadFails == task.pc \in {"badAgents", "goodAgents"} /\ ~ storeOk /\ task'.pc = "idle"

\* C17, as stated: when reading the agent lists from the store fails, at
\* start-up or on a later refresh, the failure does not reach the request
\* path: the lists stay the last loaded sets, or empty, no request is rejected
\* and every request in progress goes on to its decision.
C17_AgentReadFailureNotPropagated ==
  [][ AgentReadFails =>
         /\ knownBadAgents' = knownBadAgents
         /\ knownGoodAgents' = knownGoodAgents
         /\ returned'.status # "rejected"
         /\ \A p \in InFlight : calls'[p].pc # "idle" ]_vars

(* --------------------------------- C18 ---------------------------------- *)

\* call p takes the step that follows its read of the window setting
ReadsWindow(p) == calls[p].pc = "getRateLimitWindow" /\ calls'[p] # calls[p]

IdCalls == {i \in 1..Len(evaluations) : evaluations[i].op = "generateUserId"}

\* C19, as stated: generateUserId is a function of the user agent, the address
\* and the secret only: two calls with the same arguments return the same
\* identifier, and two calls that differ in the user agent or in the address
\* return different identifiers (the digest taken as free of collisions).
C19_IdentifierSeparatesVisitors ==
  \A i, j \in IdCalls :
     (evaluations[i].args = evaluations[j].args) = (evaluations[i].result = evaluations[j].result)

(* --------------------------------- C20 ---------------------------------- *)

\* the set of the elements of an array
Elements(array) == {array[i] : i \in 1..Len(array)}

\* C20, as stated: for every seed and every draw random() returns a value in
\* [0, 1), so randomInt(min, max) with min < max returns an integer r with
\* min <= r < max, and pick on a non-empty array returns one of its elements.
C20_DrawsInRange ==
  \A i \in 1..Len(evaluations) :
     LET e == evaluations[i] IN
     /\ e.op = "random" =>
           0 <= e.result.numerator /\ e.result.numerator < e.result.denominator
     /\ e.op = "randomInt" => e.args[1] <= e.result /\ e.result < e.args[2]
     /\ (e.op = "pick" /\ e.args # <<>>) => e.result \in Elements(e.args)

(* --------------------------------- C21 ---------------------------------- *)

\* the values that objects i and j have both returned so far
DrawnByBoth(i, j) ==
  1..(IF Len(streams[i].values) < Len(streams[j].values)
        THEN Len(streams[i].values) ELSE Len(streams[j].values))

\* C21: two SeededRandom objects built from equal seeds return the same
\* sequence of values, however the draws on them and on other objects are
\* interleaved: the k-th value of an object depends on its seed and on k only,
\* and the sequence repeats with the length of the digest as its period.
C21_StreamOfSeedAndCount ==
  /\ \A i, j \in DOMAIN streams :
        streams[i].seed = streams[j].seed =>
           \A k \in DrawnByBoth(i, j) : streams[i].values[k] = streams[j].values[k]
  /\ \A i \in DOMAIN streams :
        \A k \in 1..Len(streams[i].values) :
           k > DigestLength => streams[i].values[k] = streams[i].values[k - DigestLength]

\* two objects of one seed were drawn from in turn, past the end of the
\* digest, while another object was drawn from, and the bytes of the digest
\* differ
C21_Witness ==
  \E i, j, o \in DOMAIN streams :
     /\ i # j /\ o # i /\ o # j
     /\ streams[i].seed = streams[j].seed
     /\ Len(streams[i].values) > DigestLength
     /\ Len(streams[j].values) > DigestLength
     /\ streams[o].values # <<>>
     /\ streams[i].values[1] # streams[i].values[2]

(* --------------------------------- C22 ---------------------------------- *)

\* the calls of generateWords among the last two calls
WordCalls == {i \in 1..Len(evaluations) : evaluations[i].op = "generateWords"}

\* C22, as stated: generateWords(count, seed, startWord) returns exactly count
\* words for every count >= 1, every seed and every state of the index.
C22_ExactlyCountWords ==
  \A i \in WordCalls :
     /\ ~ evaluations[i].result.threw
     /\ Len(evaluations[i].result.words) = evaluations[i].args[1]

(* --------------------------------- C23 ---------------------------------- *)

Separator(c) == c \in Whitespace \cup Punctuation

\* the word runs and the separator runs of a text, in order
RECURSIVE Tokens(_)
Tokens(text) ==
  IF text = <<>> THEN <<>>
  ELSE LET n == CHOOSE j \in 1..Len(text) :
                   /\ \A k \in 1..j : Separator(text[k]) <=> Separator(text[1])
                   /\ j = Len(text) \/ ~ (Separator(text[j + 1]) <=> Separator(text[1]))
       IN <<SubSeq(text, 1, n)>> \o Tokens(SubSeq(text, n + 1, Len(text)))

TextCalls == {i \in DOMAIN evaluations : evaluations[i].op = "scrambleText"}

\* C25, as stated: the output of scrambleText has as many tokens as the input,
\* a word run where the input has a word run and, everywhere else, the
\* separator run of the input.
C25_TokenStructureKept ==
  \A i \in TextCalls :
     LET input == Tokens(evaluations[i].args[1])
         output == Tokens(evaluations[i].result)
     IN /\ Len(output) = Len(input)
        /\ \A k \in DOMAIN input :
              IF Separator(input[k][1]) THEN output[k] = input[k]
              ELSE ~ Separator(output[k][1])

(* --------------------------------- C26 ---------------------------------- *)

UppercaseLetter(c) == c \in Range(Uppercase)

\* C26, as stated: the replacement of a word has the capitalization shape of
\* the word: capitalized when the word starts with an uppercase letter, fully
\* uppercased when the word is longer than one character and all uppercase,
\* and without an uppercase letter when the word has none.
C26_CapitalizationShape ==
  \A i \in TextCalls :
     LET parts == split(evaluations[i].args[1], 1, <<>>, <<>>)
         replaced == scrambledParts(evaluations[i].args[3], evaluations[i].args[1],
                                    evaluations[i].args[2])
     IN \A k \in DOMAIN parts :
           isWord(parts[k]) /\ parts[k] # <<"'">> =>
              /\ UppercaseLetter(parts[k][1]) => replaced[k][1] = UpperChar(replaced[k][1])
              /\ Len(parts[k]) > 1 /\ parts[k] = toUpperCase(parts[k])
                    /\ (\E j \in DOMAIN parts[k] : UppercaseLetter(parts[k][j]))
                    => replaced[k] = toUpperCase(replaced[k])
              /\ (\A j \in DOMAIN parts[k] : ~ UppercaseLetter(parts[k][j]))
                    => \A j \in DOMAIN replaced[k] : ~ UppercaseLetter(replaced[k][j])

(* --------------------------------- C27 ---------------------------------- *)

\* the last character of the tag that starts at i: the first '>' outside a
\* quoted attribute value, or the end of the document
TagEnd(html, i) ==
  LET Closes(j) == /\ html[j] = ">"
                   /\ Cardinality({k \in i..j : html[k] = "\""}) % 2 = 0
  IN IF \E j \in i..Len(html) : Closes(j)
       THEN CHOOSE j \in i..Len(html) : Closes(j) /\ \A k \in i..(j - 1) : ~ Closes(k)
       ELSE Len(html)

\* the tags of a document, in order
RECURSIVE Tags(_, _)
Tags(html, i) ==
  IF i > Len(html) THEN <<>>
  ELSE IF html[i] = "<"
    THEN <<SubSeq(html, i, TagEnd(html, i))>> \o Tags(html, TagEnd(html, i) + 1)
    ELSE Tags(html, i + 1)

\* the character at p is strictly between a '>' and the next '<'
InText(html, p) ==
  /\ \E i \in 1..(p - 1) : html[i] = ">" /\ \A k \in (i + 1)..p : html[k] # "<"
  /\ \E j \in (p + 1)..Len(html) : html[j] = "<"

\* the document without the characters strictly between a '>' and the next '<'
Markup(html) ==
  LET RECURSIVE From(_)
      From(p) == IF p > Len(html) THEN <<>>
                 ELSE (IF InText(html, p) THEN <<>> ELSE <<html[p]>>) \o From(p + 1)
  IN From(1)

HtmlCalls == {i \in DOMAIN evaluations : evaluations[i].op = "scrambleHtmlContent"}

\* C27, as stated: scrambleHtmlContent changes text nodes only: the tags of the
\* input, attributes included, are the tags of the output, and the output
\* differs from the input only strictly between a '>' and the next '<'.
C27_OnlyTextNodesChange ==
  \A i \in HtmlCalls :
     /\ Tags(evaluations[i].result, 1) = Tags(evaluations[i].args[1], 1)
     /\ Markup(evaluations[i].result) = Markup(evaluations[i].args[1])

(* --------------------------------- C24 ---------------------------------- *)

RECURSIVE Numbered(_, _)
Numbered(sql, i) ==
  IF sql = <<>> THEN <<>>
  ELSE IF Head(sql) = "?" THEN <<"$">> \o toString(i) \o Numbered(Tail(sql), i + 1)
  ELSE <<Head(sql)>> \o Numbered(Tail(sql), i)

QuestionMarks(sql) == Len(SelectSeq(sql, LAMBDA c : c = "?"))

AdapterCalls == {i \in DOMAIN evaluations : evaluations[i].op = "adaptSQL"}

\* C28, as stated: on postgres adaptSQL writes the i-th '?' of the query as
\* '$i', so that a query without '?' is returned unchanged; on sqlite the '?'
\* placeholders of the query are left as they are.
C28_PlaceholdersAdapted ==
  \A i \in AdapterCalls :
     LET dbType == evaluations[i].args[1]
         sql == evaluations[i].args[2]
     IN /\ dbType = "postgres" => evaluations[i].result = Numbered(sql, 1)
        /\ dbType = "sqlite" /\ "$" \notin Range(sql)
              => QuestionMarks(evaluations[i].result) = QuestionMarks(sql)

(* --------------------------------- C29 ---------------------------------- *)

\* C29, as stated: RobotDetectorV2 decides as the original RobotDetector does:
\* on the lists and settings of the moment of a getContent call both return
\* the same shouldScramble and the same user id, and both go on to the rate
\* limit check for the same requests.
C29_DropInReplacement ==
  [][ \A p \in Procs :
        Analyzes(p) =>
           LET original == RobotDetector_getContent(calls[p].request)
           IN /\ calls'[p].userId
                    = generateUserId(calls[p].request.userAgent, calls[p].request.ipAddress)
              /\ calls'[p].pc = "logRequest"
                    => /\ original # "checkRateLimits"
                       /\ calls'[p].detectionResult.shouldScramble = (original # "allowed")
              /\ calls'[p].pc # "logRequest" => original = "checkRateLimits" ]_vars

(* --------------------------------- C30 ---------------------------------- *)

\* the timestamps that call p read for its visitor and that are newer than
\* the window before the time at which its check was entered
InsideWindow(p) ==
  {k \in DOMAIN calls[p].userTimestamps :
      calls[p].userTimestamps[k] > calls[p].now - calls[p].rateLimitWindow}

\* C30: a decision is blocked exactly when its reason is not null, and a
\* reason is the scramble parameter, the known bad agent, or the rate limit
\* exceeded with the count and the limit, where the count is the number of
\* timestamps of the visitor inside the window at the check and is above the
\* limit.
C30_ReasonOfDecision ==
  \A p \in Analyzed :
     LET result == calls[p].detectionResult
         reason == result.redirectReason
     IN /\ result.shouldScramble <=> reason # null
        /\ reason # null =>
              \/ reason = <<"Scramble parameter detected">>
              \/ reason = <<"Known bad user agent">>
              \/ /\ Len(reason) = 3
                 /\ reason[1] = "Rate limit exceeded"
                 /\ reason[2] = Cardinality(InsideWindow(p))
                 /\ reason[3] = getRateLimitMax
                 /\ reason[2] > reason[3]

\* a visitor over the limit was blocked with the count and the limit
C30_Witness ==
  \E p \in Analyzed :
     /\ calls[p].detectionResult.shouldScramble
     /\ Len(calls[p].detectionResult.redirectReason) = 3
     /\ calls[p].detectionResult.redirectReason[2] = 2
     /\ calls[p].detectionResult.redirectReason[3] = 1

(* --------------------------------- C31 ---------------------------------- *)

\* the in-memory sets hold the active rows of these agent tables
Reflects(rows) ==
  /\ knownBadAgents = {toLowerCase(row) : row \in rows.bad}
  /\ knownGoodAgents = {toLowerCase(row) : row \in rows.good}

\* C31: when the agent tables of the store stay as they are from some point
\* on and the store answers, whoever wrote them, the in-memory allow and deny
\* sets eventually hold their active rows and keep holding them
C31_StoreChangeReflected ==
  \A rows \in AgentTables :
     <>[](agentRows = rows /\ storeOk) => <>[]Reflects(rows)

(* --------------------------------- C32 ---------------------------------- *)

\* the text blocks of a document, in order: the contents between a '>' and
\* the next '<'
RECURSIVE TextBlocks(_, _)
TextBlocks(html, i) ==
  IF i > Len(html) THEN <<>>
  ELSE IF html[i] = ">" /\ \E j \in (i + 2)..Len(html) : html[j] = "<"
                        /\ html[i + 1] # "<"
    THEN LET j == CHOOSE j \in (i + 2)..Len(html) :
                     html[j] = "<" /\ \A k \in (i + 1)..(j - 1) : html[k] # "<"
         IN <<SubSeq(html, i + 1, j - 1)>> \o TextBlocks(html, j + 1)
    ELSE TextBlocks(html, i + 1)

Alphanumeric(c) == c \in Range(Lowercase) \cup Range(Uppercase) \cup Range(Digits)

\* a block of whitespace only
Blank(block) == \A k \in DOMAIN block : block[k] \in Whitespace

\* a block of HTML-entity references only: every character is whitespace or
\* belongs to a reference, '&', a name and ';'
OnlyEntityReferences(block) ==
  /\ ~ Blank(block)
  /\ \A k \in DOMAIN block :
        \/ block[k] \in Whitespace
        \/ \E a \in 1..k, z \in k..Len(block) :
              /\ block[a] = "&" /\ block[z] = ";" /\ z > a + 1
              /\ \A m \in (a + 1)..(z - 1) : Alphanumeric(block[m]) \/ block[m] = "#"

\* the words of a block: its runs of letters and digits
WordsOf(block) ==
  LET Run(a, z) == /\ a <= z
                   /\ \A m \in a..z : Alphanumeric(block[m])
                   /\ (a = 1 \/ ~ Alphanumeric(block[a - 1]))
                   /\ (z = Len(block) \/ ~ Alphanumeric(block[z + 1]))
  IN {SubSeq(block, r[1], r[2]) :
        r \in {q \in (DOMAIN block) \X (DOMAIN block) : Run(q[1], q[2])}}

\* a word with its uppercase letters written in lowercase
Folded(word) ==
  [k \in DOMAIN word |->
     IF \E n \in DOMAIN Uppercase : Uppercase[n] = word[k]
       THEN Lowercase[CHOOSE n \in DOMAIN Uppercase : Uppercase[n] = word[k]]
       ELSE word[k]]

\* the words that generateWords draws from: the words of the index, or the
\* fallback words without one
Vocabulary(this) ==
  IF ~ this.isIndexed \/ this.words = <<>> THEN Range(fallbackWords) ELSE Range(this.words)

\* C32, as stated: scrambleHtmlContent leaves a text block as it is when it is
\* blank or holds only entity references, and every other block that holds a
\* word comes back with generated words only.
C32_OnlyBlankAndEntitiesKept ==
  \A i \in HtmlCalls :
     LET input == TextBlocks(evaluations[i].args[1], 1)
         output == TextBlocks(evaluations[i].result, 1)
     IN /\ Len(output) = Len(input)
        /\ \A k \in DOMAIN input :
              IF Blank(input[k]) \/ OnlyEntityReferences(input[k])
                THEN output[k] = input[k]
                ELSE WordsOf(input[k]) # {} =>
                        \A word \in WordsOf(output[k]) :
                           Folded(word) \in Vocabulary(evaluations[i].args[3])

(* --------------------------------- C33 ---------------------------------- *)

\* a generateWords call is made
Reads == evaluations' # evaluations

\* C33, as stated: a generateWords call made while buildIndex is in progress
\* returns what it returns on the index as it was when buildIndex was entered
\* or what it returns on the index of the whole directory.
C33_RebuildAtomic ==
  [][Reads /\ scan.pc # "idle" =>
        LET call == evaluations'[1]
        IN call.result \in
             { generateWords(scan.previous, call.args[1], call.args[2], call.args[3]),
               generateWords(buildIndex(filesOf(scan.directory)),
                             call.args[1], call.args[2], call.args[3]) }]_vars

(* --------------------------------- C34 ---------------------------------- *)

PageCalls == {i \in DOMAIN evaluations : evaluations[i].op = "getScrambledContent"}

\* the text is made of generated words: none is undefined, none is missing
\* between two separators, and every word is a word of the vocabulary
OnlyGeneratedWords(text, this) ==
  /\ \A k \in DOMAIN text : text[k] # "undefined"
  /\ \A k \in 1..(Len(text) - 1) : ~ (text[k] = " " /\ text[k + 1] \in {" ", "."})
  /\ text # <<>> => text[1] # " "
  /\ \A word \in WordsOf(text) : Folded(word) \in Vocabulary(this)

\* C34, as stated: whatever the path, the index and the digests, the page is
\* not null, and the title and the paragraphs of a default page are made of
\* generated words only.
C34_DecoyNeverFails ==
  \A i \in PageCalls :
     LET page == evaluations[i].result
         requestPath == evaluations[i].args[1]
         this == evaluations[i].args[2]
     IN /\ ~ page.isNull
        /\ page.html = <<>> =>
              /\ Len(page.title) > Len(requestPath) + 3
              /\ OnlyGeneratedWords(SubSeq(page.title, 1,
                                           Len(page.title) - Len(requestPath) - 3), this)
              /\ page.paragraphs # <<>>
              /\ \A k \in DOMAIN page.paragraphs :
                    page.paragraphs[k] # <<>>
                    /\ OnlyGeneratedWords(page.paragraphs[k], this)

(* --------------------------------- C35 ---------------------------------- *)

\* the request log holds a row of this visitor blocked by the rate limiter
WasBlocked(userId) ==
  \E i \in DOMAIN requestLogs :
     /\ requestLogs[i].user_id = userId
     /\ requestLogs[i].block_reason # null
     /\ requestLogs[i].block_reason[1] = "Rate limit exceeded"

\* the oldest timestamp that call p read is more than one window older than
\* the call
OldestExpired(p) ==
  \E i \in DOMAIN calls[p].userTimestamps :
     /\ \A j \in DOMAIN calls[p].userTimestamps :
           calls[p].userTimestamps[i] <= calls[p].userTimestamps[j]
     /\ calls[p].now - calls[p].userTimestamps[i] > calls[p].rateLimitWindow

\* C35, as stated: the requests that the rate limiter blocked do not extend
\* the block: the window and the maximum staying as they are, a visitor that
\* was blocked for exceeding the limit is allowed on its first countable
\* request sent more than W after the oldest timestamp stored for it, whatever
\* it sent during the block.
C35_BlockNotExtended ==
  \A p \in RateChecked :
     WasBlocked(calls[p].userId) /\ OldestExpired(p)
        => ~ calls[p].rateLimitResult.exceeded

(* --------------------------------- C36 ---------------------------------- *)

\* what checkRateLimits would count for a visitor on this map at this time
CountOf(m, userId) ==
  Cardinality({i \in DOMAIN MapGet(m, userId) :
                 MapGet(m, userId)[i] > Now - parseInt(settings.rate_limit_short_window) * SECONDS})

\* C36, as stated: the windows that warm-up rebuilds after a restart hold only
\* timestamps of requests that the limiter had counted before the restart;
\* the requests that were logged and not counted (blocked, allow-listed, with
\* a scramble parameter, served while the honeypot was disabled) add none: the
\* count of a visitor right after a restart is at most its count right before.
C36_WarmupOnlyCounted ==
  [][ Restart =>
         \A userId \in DOMAIN userRequests' :
            CountOf(userRequests', userId) <= CountOf(userRequests, userId) ]_vars

(* --------------------------------- C37 ---------------------------------- *)

\* the visitors that sent a request to this process
Arrived == {generateUserId(request.userAgent, request.ipAddress) : request \in Arrivals}

\* C37, as stated: initialization runs once: whether initialize is called by
\* the constructor of RobotDetectorV2, by ensureInitialized for the requests
\* that arrive before it has completed, or again on the ServiceContainer, the
\* agent lists are loaded and the rate counters warmed up at most once in the
\* lifetime of the container: a visitor that sent nothing to this process has
\* at most one timestamp for each of its rows in the request log.
C37_InitializedOnce ==
  \A userId \in (DOMAIN userRequests) \ Arrived :
     Len(userRequests[userId]) <= Len(TimestampsOf(requestLogs, userId))

(* --------------------------------- C38 ---------------------------------- *)

\* the file is the blog directory or lies below it
InsideBlog(file) ==
  \/ file = <<"/", "s", "/", "b">>
  \/ Len(file) > 5 /\ SubSeq(file, 1, 5) = <<"/", "s", "/", "b", "/">>

\* one of the potential paths of the request is a file of the blog directory
BlogFileFor(requestPath) ==
  \E k \in 1..4 : /\ InsideBlog(resolvedPaths(requestPath)[k])
                  /\ resolvedPaths(requestPath)[k] \in DOMAIN FileSystem

\* C38, as stated: whatever the request path, '..' segments included,
\* getScrambledContent reads only files inside the blog directory: for a path
\* that resolves outside of it, be it into a directory beside it whose name
\* starts with the name of the blog directory, no file is read and the default
\* page is returned.
C38_ReadsOnlyBlogFiles ==
  \A i \in PageCalls :
     ~ BlogFileFor(evaluations[i].args[1]) => evaluations[i].result.html = <<>>

(* --------------------------------- C39 ---------------------------------- *)

\* the analysis of the request of call p throws: the honeypot is enabled, the
\* request has no scramble parameter and no path
AnalysisThrows(p) ==
  /\ settings.honeypot_enabled = "true"
  /\ NoScramble(p)
  /\ calls[p].request.path = <<"undefined">>

====
